---------------------------- MODULE Spec2Model ----------------------------
(***************************************************************************)
(* Price Floors module (modules/priceFloors.js, the module of lines        *)
(* 663-1265): rule tables, first-match resolution, the delayed-auction     *)
(* queue around the single floors fetch, getFloor and the bid-response     *)
(* enforcement hook.                                                       *)
(*                                                                         *)
(* Representation.  A JavaScript string is a sequence of symbols; a symbol *)
(* is an indivisible piece of text ("banner", "|", "*").  Concatenation is *)
(* \o, split and join work on symbols.  An optional number is a sequence   *)
(* of length at most one (<<>> is undefined).  Amounts of money are        *)
(* integers counting Unit-ths of a currency unit.                          *)
(***************************************************************************)
EXTENDS Integers, Sequences, FiniteSets, TLC

\* ------------------------------------------------------------------ bounds
\* number of times one behaviour turns the module on (registers its hooks)
MaxRegistrations == 2
\* number of getFloor calls in one behaviour
MaxGetFloorCalls == 3
\* number of getFirstMatchingFloor calls on one table and bid request
MaxMatchCalls == 2

\* ------------------------------------------------------- program constants
\* roundUp(floorInfo.matchingFloor, 4)
Precision == 4

Auctions == {"a1", "a2"}
\* auction ids are handed out in this order
Before(a, b) == a = "a1" /\ b = "a2"

None == <<>>
Some(x) == <<x>>
IsSome(m) == Len(m) = 1
\* JavaScript truthiness of an optional number
Truthy(m) == IsSome(m) /\ m[1] # 0

\* the value JavaScript calls undefined, where a string is expected
Undefined == <<"undefined!">>
Star == <<"*">>

\* ------------------------------------------------------------ string tools
RECURSIVE Join(_, _)
\* Array.prototype.join
Join(strs, sep) ==
  IF Len(strs) = 0 THEN <<>>
  ELSE IF Len(strs) = 1 THEN strs[1]
  ELSE strs[1] \o sep \o Join(Tail(strs), sep)

RECURSIVE SplitFrom(_, _, _)
SplitFrom(str, sep, cur) ==
  IF Len(str) = 0 THEN <<cur>>
  ELSE IF <<Head(str)>> = sep THEN <<cur>> \o SplitFrom(Tail(str), sep, <<>>)
  ELSE SplitFrom(Tail(str), sep, Append(cur, Head(str)))

\* String.prototype.split with a one-symbol separator
Split(str, sep) == SplitFrom(str, sep, <<>>)

\* String.prototype.toLowerCase, symbol by symbol
LowerSym(s) ==
  CASE s = "Banner" -> "banner"
    [] s = "Div1" -> "div1"
    [] OTHER -> s

toLowerCase(str) == [i \in 1..Len(str) |-> LowerSym(str[i])]

\* String.prototype.toUpperCase, symbol by symbol
UpperSym(s) ==
  CASE s = "usd" -> "USD"
    [] s = "eur" -> "EUR"
    [] OTHER -> s

toUpperCase(str) == [i \in 1..Len(str) |-> UpperSym(str[i])]

\* left.split('*').length - 1
CountStars(str) == Cardinality({i \in 1..Len(str) : str[i] = "*"})

\* ------------------------------------------------------------------ roundUp
Pow10(n) == IF n = 4 THEN 10000 ELSE IF n = 5 THEN 100000 ELSE 1
\* one currency unit; amounts carry one decimal place more than roundUp keeps
Unit == Pow10(Precision + 1)

\* rounding to the nearest step instead of up
roundToNearest(number, precision) ==
  LET step == Unit \div Pow10(precision)
  IN ((number + step \div 2) \div step) * step

\* Math.ceil(parseFloat(number) * 10^precision) / 10^precision
roundUp(number, precision) ==
  LET step == Unit \div Pow10(precision)
  IN ((number + step - 1) \div step) * step

\* ------------------------------------------------------------ floors data
\* typeof floor === 'number' or not
Num(n) == [t |-> "number", n |-> n]
NotNum == [t |-> "string", n |-> 0]
Rule(k, v) == [key |-> k, floor |-> v]

\* an object's own keys, in insertion order
Keys(values) == [i \in 1..Len(values) |-> values[i].key]
\* values.hasOwnProperty(key)
HasKey(values, key) == \E i \in 1..Len(values) : values[i].key = key
\* values[key]
Lookup(values, key) ==
  IF HasKey(values, key)
  THEN LET i == CHOOSE j \in 1..Len(values) : values[j].key = key
       IN IF values[i].floor.t = "number" THEN Some(values[i].floor.n) ELSE None
  ELSE None
\* values[key] = floor: an existing key keeps its place
SetKey(values, key, floor) ==
  IF HasKey(values, key)
  THEN [i \in 1..Len(values) |->
          IF values[i].key = key THEN Rule(key, floor) ELSE values[i]]
  ELSE Append(values, Rule(key, floor))

RECURSIVE AssignAll(_, _)
\* Object.assign(target, source)
AssignAll(target, source) ==
  IF Len(source) = 0 THEN target
  ELSE AssignAll(SetKey(target, Head(source).key, Head(source).floor), Tail(source))

\* the value in place of a floors document that is not there
NoData ==
  [type |-> "undefined", modelVersion |-> Undefined, currency |-> Undefined,
   skipRate |-> None, fields |-> <<>>, delimiter |-> Undefined, values |-> <<>>,
   default |-> None, location |-> Undefined, matchingInputs |-> <<>>]

Doc(modelVersion, currency, skipRate, fields, delimiter, values, default) ==
  [NoData EXCEPT !.type = "object", !.modelVersion = modelVersion,
     !.currency = currency, !.skipRate = skipRate, !.fields = fields,
     !.delimiter = delimiter, !.values = values, !.default = default]

allowedFields == <<"gptSlot", "adUnitCode", "size", "domain", "mediaType">>

validateSchemaFields(fields) ==
  /\ Len(fields) > 0
  /\ \A i \in 1..Len(fields) : \E j \in 1..Len(allowedFields) : allowedFields[j] = fields[i]

\* isValidRule that takes any floor
isValidRuleAnyFloor(key, floor, numFields, delimiter) ==
  Len(Split(key, delimiter)) = numFields

isValidRule(key, floor, numFields, delimiter) ==
  IF Len(Split(key, delimiter)) # numFields THEN FALSE ELSE floor.t = "number"

\* the rules validateRules keeps
filteredRules(floorsData, numFields, delimiter) ==
  SelectSeq(floorsData.values, LAMBDA r : isValidRule(r.key, r.floor, numFields, delimiter))

\* schema.delimiter || '|'
DelimiterOf(floorsData) ==
  IF floorsData.delimiter = Undefined THEN <<"|">> ELSE floorsData.delimiter

\* isFloorsDataValid leaves the document with the invalid rules removed
validatedData(floorsData) ==
  IF floorsData.type = "object" /\ validateSchemaFields(floorsData.fields)
  THEN [floorsData EXCEPT !.values =
          filteredRules(floorsData, Len(floorsData.fields), DelimiterOf(floorsData))]
  ELSE floorsData

validateRules(floorsData, numFields, delimiter) ==
  Len(filteredRules(floorsData, numFields, delimiter)) > 0

isFloorsDataValid(floorsData) ==
  IF floorsData.type # "object" THEN FALSE
  ELSE IF ~validateSchemaFields(floorsData.fields) THEN FALSE
  ELSE validateRules(floorsData, Len(floorsData.fields), DelimiterOf(floorsData))

\* the document with its location, or NoData for `undefined`
parseFloorData(floorsData, location) ==
  IF floorsData.type = "object" /\ isFloorsDataValid(floorsData)
  THEN [validatedData(floorsData) EXCEPT !.location = location]
  ELSE NoData

\* ------------------------------------------------- tables for one auction
RECURSIVE normalizeKeys(_, _, _, _)
normalizeKeys(values, prepend, adUnitCode, delimiter) ==
  IF Len(values) = 0 THEN <<>>
  ELSE LET rest == normalizeKeys(SubSeq(values, 1, Len(values) - 1), prepend, adUnitCode, delimiter)
           old == values[Len(values)]
           newKey == IF prepend THEN adUnitCode \o delimiter \o old.key ELSE old.key
       IN SetKey(rest, toLowerCase(newKey), old.floor)

\* whether normalizeRulesForAuction puts 'adUnitCode' in front of the fields
prependAdUnitCode(fields, adUnitCode) ==
  /\ adUnitCode # Undefined
  /\ adUnitCode # <<>>
  /\ \A i \in 1..Len(fields) : fields[i] # "adUnitCode"

normalizeRulesForAuction(floorData, adUnitCode) ==
  normalizeKeys(floorData.values, prependAdUnitCode(floorData.fields, adUnitCode),
                adUnitCode, floorData.delimiter)

\* getFloorsDataForAuction that leaves a missing currency missing
getFloorsDataForAuctionAsGiven(floorData, adUnitCode) ==
  LET withDelimiter == [floorData EXCEPT !.delimiter = DelimiterOf(floorData)]
  IN [withDelimiter EXCEPT
        !.fields = IF prependAdUnitCode(floorData.fields, adUnitCode)
                   THEN <<"adUnitCode">> \o floorData.fields ELSE floorData.fields,
        !.values = normalizeRulesForAuction(withDelimiter, adUnitCode)]

getFloorsDataForAuction(floorData, adUnitCode) ==
  LET withDelimiter == [floorData EXCEPT !.delimiter = DelimiterOf(floorData)]
  IN [withDelimiter EXCEPT
        !.fields = IF prependAdUnitCode(floorData.fields, adUnitCode)
                   THEN <<"adUnitCode">> \o floorData.fields ELSE floorData.fields,
        !.values = normalizeRulesForAuction(withDelimiter, adUnitCode),
        !.currency = IF floorData.currency = Undefined \/ floorData.currency = <<>>
                     THEN <<"USD">> ELSE floorData.currency]

RECURSIVE getFloorDataFromAdUnitsUntagged(_)
\* getFloorDataFromAdUnits that leaves the location of the table unset
getFloorDataFromAdUnitsUntagged(adUnits) ==
  IF Len(adUnits) = 0 THEN NoData
  ELSE LET accum == getFloorDataFromAdUnitsUntagged(SubSeq(adUnits, 1, Len(adUnits) - 1))
           adUnit == adUnits[Len(adUnits)]
           floors == validatedData(adUnit.floors)
       IN IF isFloorsDataValid(adUnit.floors)
          THEN IF accum.type # "object"
               THEN getFloorsDataForAuction(floors, adUnit.code)
               ELSE [accum EXCEPT !.values =
                       AssignAll(accum.values, getFloorsDataForAuction(floors, adUnit.code).values)]
          ELSE accum

RECURSIVE getFloorDataFromAdUnitsFirstWins(_)
\* getFloorDataFromAdUnits that keeps the rule already there under a key
getFloorDataFromAdUnitsFirstWins(adUnits) ==
  IF Len(adUnits) = 0 THEN NoData
  ELSE LET accum == getFloorDataFromAdUnitsFirstWins(SubSeq(adUnits, 1, Len(adUnits) - 1))
           adUnit == adUnits[Len(adUnits)]
           floors == validatedData(adUnit.floors)
       IN IF isFloorsDataValid(adUnit.floors)
          THEN IF accum.type # "object"
               THEN [getFloorsDataForAuction(floors, adUnit.code) EXCEPT !.location = <<"adUnit">>]
               ELSE [accum EXCEPT !.values =
                       AssignAll(getFloorsDataForAuction(floors, adUnit.code).values, accum.values)]
          ELSE accum

RECURSIVE getFloorDataFromAdUnits(_)
\* adUnits.reduce(..., {}), the accumulator NoData standing for {}
getFloorDataFromAdUnits(adUnits) ==
  IF Len(adUnits) = 0 THEN NoData
  ELSE LET accum == getFloorDataFromAdUnits(SubSeq(adUnits, 1, Len(adUnits) - 1))
           adUnit == adUnits[Len(adUnits)]
           floors == validatedData(adUnit.floors)
       IN IF isFloorsDataValid(adUnit.floors)
          THEN IF accum.type # "object"
               THEN [getFloorsDataForAuction(floors, adUnit.code) EXCEPT !.location = <<"adUnit">>]
               ELSE [accum EXCEPT !.values =
                       AssignAll(accum.values, getFloorsDataForAuction(floors, adUnit.code).values)]
          ELSE accum

\* -------------------------------------------------------------- matching
\* referrerHostname, the page's host name
referrerHostname == <<"example", ".", "com">>

\* utils.parseGPTSingleSizeArray: a [width, height] pair becomes "WxH",
\* anything else undefined; a size is carried here in its "WxH" form
parseGPTSingleSizeArray(size) ==
  IF size = Undefined \/ size = Star \/ size = <<>> THEN Undefined ELSE size

\* fieldMatchingFunctions[field](bidObject), and the size and mediaType given
exactMatchOf(field, bidObject, mediaType, size) ==
  CASE field = "size" -> size
    [] field = "mediaType" -> mediaType
    [] field = "gptSlot" -> bidObject.gptSlot
    [] field = "domain" -> referrerHostname
    [] OTHER -> bidObject.adUnitCode

\* exactMatch.toLowerCase() of undefined is a TypeError
enumerateThrows(floorFields, bidObject, mediaType, size) ==
  \E i \in 1..Len(floorFields) :
     exactMatchOf(floorFields[i], bidObject, mediaType, size) = Undefined

enumeratePossibleFieldValues(floorFields, bidObject, mediaType, size) ==
  [i \in 1..Len(floorFields) |->
     LET exactMatch == exactMatchOf(floorFields[i], bidObject, mediaType, size)
     IN IF exactMatch = Star THEN <<Star>> ELSE <<toLowerCase(exactMatch), Star>>]

RECURSIVE Product(_, _, _)
\* accum.map(obj => currentVal.map(obj1 => ret.push(obj + delimiter + obj1)))
Product(accum, currentVal, delimiter) ==
  IF Len(accum) = 0 THEN <<>>
  ELSE [j \in 1..Len(currentVal) |-> Head(accum) \o delimiter \o currentVal[j]]
       \o Product(Tail(accum), currentVal, delimiter)

RECURSIVE Enumerate(_, _)
\* arrayOfFields.reduce(...) with no initial value
Enumerate(arrayOfFields, delimiter) ==
  IF Len(arrayOfFields) = 1 THEN arrayOfFields[1]
  ELSE Product(Enumerate(SubSeq(arrayOfFields, 1, Len(arrayOfFields) - 1), delimiter),
               arrayOfFields[Len(arrayOfFields)], delimiter)

RECURSIVE SortByStars(_, _, _)
\* a stable sort on the number of '*'
SortByStars(list, k, max) ==
  IF k > max THEN <<>>
  ELSE SelectSeq(list, LAMBDA x : CountStars(x) = k) \o SortByStars(list, k + 1, max)

\* the largest number of '*' a string of the list has
MostStars(list) ==
  IF Len(list) = 0 THEN 0
  ELSE LET counts == {CountStars(list[i]) : i \in 1..Len(list)}
       IN CHOOSE m \in counts : \A n \in counts : n <= m

\* list.sort((left, right) => stars of left - stars of right)
SortedByStars(list) == SortByStars(list, 0, MostStars(list))

generatePossibleEnumerations(arrayOfFields, delimiter) ==
  SortedByStars(Enumerate(arrayOfFields, delimiter))

\* the resolution getFirstMatchingFloor returns and memoizes
Info(matchingFloor, matchingData, matchingRule) ==
  [matchingFloor |-> matchingFloor, matchingData |-> matchingData, matchingRule |-> matchingRule]

\* floorData.matchingInputs, an object keyed by matchingInput
HasInput(inputs, key) == \E i \in 1..Len(inputs) : inputs[i].key = key
InputOf(inputs, key) == inputs[CHOOSE i \in 1..Len(inputs) : inputs[i].key = key].info
SetInput(inputs, key, info) ==
  IF HasInput(inputs, key)
  THEN [i \in 1..Len(inputs) |->
          IF inputs[i].key = key THEN [key |-> key, info |-> info] ELSE inputs[i]]
  ELSE Append(inputs, [key |-> key, info |-> info])

\* matchingInput of a call: fieldValues.map(field => field[0]).join('-')
matchingInputOf(floorData, bidObject, mediaTypeIn, sizeIn) ==
  LET mediaType == IF mediaTypeIn = Undefined \/ mediaTypeIn = <<>> THEN <<"banner">> ELSE mediaTypeIn
      parsed == parseGPTSingleSizeArray(sizeIn)
      size == IF parsed = Undefined THEN Star ELSE parsed
      fieldValues == enumeratePossibleFieldValues(floorData.fields, bidObject, mediaType, size)
  IN Join([i \in 1..Len(fieldValues) |-> fieldValues[i][1]], <<"-">>)

\* [threw, hit, info, data]: the resolution and floorData as the call leaves it
getFirstMatchingFloor(floorData, bidObject, mediaTypeIn, sizeIn) ==
  LET mediaType == IF mediaTypeIn = Undefined \/ mediaTypeIn = <<>> THEN <<"banner">> ELSE mediaTypeIn
      parsed == parseGPTSingleSizeArray(sizeIn)
      size == IF parsed = Undefined THEN Star ELSE parsed
      noInfo == Info(None, Undefined, Undefined)
  IN IF enumerateThrows(floorData.fields, bidObject, mediaType, size)
     THEN [threw |-> TRUE, hit |-> FALSE, info |-> noInfo, data |-> floorData]
     ELSE
     LET fieldValues == enumeratePossibleFieldValues(floorData.fields, bidObject, mediaType, size)
         matchingInput == matchingInputOf(floorData, bidObject, mediaTypeIn, sizeIn)
     IN IF Len(fieldValues) = 0
        THEN [threw |-> FALSE, hit |-> FALSE,
              info |-> Info(floorData.default, Undefined, Undefined), data |-> floorData]
        ELSE IF HasInput(floorData.matchingInputs, matchingInput)
        THEN [threw |-> FALSE, hit |-> TRUE,
              info |-> InputOf(floorData.matchingInputs, matchingInput), data |-> floorData]
        ELSE
        LET allPossibleMatches == generatePossibleEnumerations(fieldValues, DelimiterOf(floorData))
            present == SelectSeq(allPossibleMatches, LAMBDA h : HasKey(floorData.values, h))
            matchingRule == IF Len(present) = 0 THEN Undefined ELSE present[1]
            stored == IF matchingRule = Undefined THEN None ELSE Lookup(floorData.values, matchingRule)
            matchingData == Info(IF Truthy(stored) THEN stored ELSE floorData.default,
                                 allPossibleMatches[1], matchingRule)
        IN [threw |-> FALSE, hit |-> FALSE, info |-> matchingData,
            data |-> [floorData EXCEPT !.matchingInputs = SetInput(@, matchingInput, matchingData)]]

\* ----------------------------------------------- currency and adjustment
\* getGlobal().convertCurrency(amount, from, to): the currency module's rates,
\* one EUR being two USD; it throws when the module is not there
convertCurrency(amount, from, to) ==
  IF from = to THEN amount
  ELSE IF from = <<"EUR">> THEN amount * 2
  ELSE amount \div 2

\* bidderSettings[bidderName].bidCpmAdjustment, as numerator and denominator
\* of the factor it multiplies the cpm by; <<>> when the bidder has none
bidCpmAdjustment(bidderName) ==
  IF bidderName = "rubicon" THEN <<1, 2>> ELSE <<>>

getBiddersCpmAdjustment(bidderName, inputCpm) ==
  LET adjustmentFunction == bidCpmAdjustment(bidderName)
  IN IF adjustmentFunction # <<>>
     THEN (inputCpm * adjustmentFunction[1]) \div adjustmentFunction[2]
     ELSE inputCpm

\* oldFloor / newFloor * oldFloor
calculateAdjustedFloor(oldFloor, newFloor) == (oldFloor * oldFloor) \div newFloor

\* ------------------------------------------------------ auction contexts
NoEnforcement ==
  [enforceJS |-> "undefined", enforcePBS |-> "undefined",
   floorDeals |-> "undefined", bidAdjustment |-> "undefined"]

\* _floorDataForAuction[auctionId] when nothing is stored there
NoContext ==
  [exists |-> FALSE, hasEnforcement |-> FALSE, enforcement |-> NoEnforcement,
   skipped |-> FALSE, data |-> NoData]

\* bid.floorData as updateAdUnitsForAuction writes it
NoBidFloorData ==
  [present |-> FALSE, skipped |-> FALSE, modelVersion |-> Undefined, location |-> Undefined]

\* a table counts as one with rules whatever it holds
HasRulesAlways(data) == TRUE

HasRules(data) == data.type = "object" /\ Len(data.values) > 0

\* updateAdUnitsForAuction that gives getFloor to the bids of a skipped auction too
updateAdUnitsForAuctionWithGetFloor(adUnits, floorData, skipped) ==
  [i \in 1..Len(adUnits) |->
     [adUnits[i] EXCEPT !.bids =
        [j \in 1..Len(adUnits[i].bids) |->
           [adUnits[i].bids[j] EXCEPT
              !.getFloor = TRUE,
              !.floorData =
                 [present |-> TRUE, skipped |-> skipped,
                  modelVersion |-> IF floorData.data.modelVersion = Undefined
                                   THEN <<>> ELSE floorData.data.modelVersion,
                  location |-> floorData.data.location]]]]]

updateAdUnitsForAuction(adUnits, floorData, skipped) ==
  [i \in 1..Len(adUnits) |->
     [adUnits[i] EXCEPT !.bids =
        [j \in 1..Len(adUnits[i].bids) |->
           [adUnits[i].bids[j] EXCEPT
              !.getFloor = ~skipped,
              !.floorData =
                 [present |-> TRUE, skipped |-> skipped,
                  modelVersion |-> IF floorData.data.modelVersion = Undefined
                                   THEN <<>> ELSE floorData.data.modelVersion,
                  location |-> floorData.data.location]]]]]

\* isFloorsDataValid(adUnit.floors) drops the invalid rules of adUnit.floors
validatedAdUnits(adUnits) ==
  [i \in 1..Len(adUnits) |-> [adUnits[i] EXCEPT !.floors = validatedData(@)]]

\* createFloorsDataForAuction that skips when the sample equals the skip rate too
createFloorsDataForAuctionOrEqual(adUnits, floorsConfig, random) ==
  LET useAdUnitData == ~HasRules(floorsConfig.data)
      data == IF useAdUnitData THEN getFloorDataFromAdUnits(adUnits)
              ELSE getFloorsDataForAuction(floorsConfig.data, Undefined)
      seenAdUnits == IF useAdUnitData THEN validatedAdUnits(adUnits) ELSE adUnits
      skipRate == IF Truthy(data.skipRate) THEN data.skipRate[1] ELSE 0
      isSkipped == random <= skipRate
      resolvedFloorsData ==
        [exists |-> TRUE, hasEnforcement |-> floorsConfig.hasEnforcement,
         enforcement |-> floorsConfig.enforcement, skipped |-> isSkipped, data |-> data]
  IN IF ~HasRules(data)
     THEN [context |-> NoContext, adUnits |-> seenAdUnits]
     ELSE [context |-> resolvedFloorsData,
           adUnits |-> updateAdUnitsForAuction(seenAdUnits, resolvedFloorsData, isSkipped)]

\* [context, adUnits]: what is stored for the auction, and the ad units after;
\* random is Math.random() * 100
createFloorsDataForAuction(adUnits, floorsConfig, random) ==
  LET useAdUnitData == ~HasRules(floorsConfig.data)
      data == IF useAdUnitData THEN getFloorDataFromAdUnits(adUnits)
              ELSE getFloorsDataForAuction(floorsConfig.data, Undefined)
      seenAdUnits == IF useAdUnitData THEN validatedAdUnits(adUnits) ELSE adUnits
      skipRate == IF Truthy(data.skipRate) THEN data.skipRate[1] ELSE 0
      isSkipped == random < skipRate
      resolvedFloorsData ==
        [exists |-> TRUE, hasEnforcement |-> floorsConfig.hasEnforcement,
         enforcement |-> floorsConfig.enforcement, skipped |-> isSkipped, data |-> data]
  IN IF ~HasRules(data)
     THEN [context |-> NoContext, adUnits |-> seenAdUnits]
     ELSE [context |-> resolvedFloorsData,
           adUnits |-> updateAdUnitsForAuction(seenAdUnits, resolvedFloorsData, isSkipped)]

\* ---------------------------------------------------------------- getFloor
\* getMediaTypesSizes[mediaType](bid)
SizesOf(bid, mediaType) ==
  LET i == CHOOSE j \in 1..Len(bid.mediaTypes) : bid.mediaTypes[j].mediaType = mediaType
  IN bid.mediaTypes[i].sizes

OnBid(bid, mediaType) == \E j \in 1..Len(bid.mediaTypes) : bid.mediaTypes[j].mediaType = mediaType

NoFloor == [isEmpty |-> TRUE, floor |-> 0, currency |-> Undefined]

\* the floor getFloor returns and the context it leaves, once the currency
\* is settled: the bidder's cpm adjustment, the rounding, and the write of the
\* floor into floorInfo, which is the memoized object itself on a hit
getFloorAdjusted(floorData, bid, found, matchingInput, converted, currency) ==
  IF ~floorData.hasEnforcement
  \* floorData.enforcement.bidAdjustment of an undefined enforcement
  THEN [threw |-> TRUE, floor |-> NoFloor,
        context |-> [floorData EXCEPT !.data =
           IF found.hit
           THEN [found.data EXCEPT !.matchingInputs =
                   SetInput(@, matchingInput, [found.info EXCEPT !.matchingFloor = converted])]
           ELSE found.data]]
  ELSE
  LET toAdjust == floorData.enforcement.bidAdjustment = "true" /\ Truthy(converted)
      cpmAdjustment == IF toAdjust THEN getBiddersCpmAdjustment(bid.bidder, converted[1]) ELSE 0
      adjusted == IF toAdjust /\ cpmAdjustment # 0
                  THEN Some(calculateAdjustedFloor(converted[1], cpmAdjustment))
                  ELSE converted
  IN [threw |-> FALSE,
      floor |-> IF Truthy(adjusted)
                THEN [isEmpty |-> FALSE, floor |-> roundUp(adjusted[1], Precision),
                      currency |-> currency]
                ELSE NoFloor,
      context |-> [floorData EXCEPT !.data =
         IF found.hit
         THEN [found.data EXCEPT !.matchingInputs =
                 SetInput(@, matchingInput, [found.info EXCEPT !.matchingFloor = adjusted])]
         ELSE found.data]]

\* the catch block leaving the currency asked for in place
getFloorFoundAsAsked(floorData, bid, requestParams, canConvert, found, matchingInput) ==
  IF found.threw
  THEN [threw |-> TRUE, floor |-> NoFloor, context |-> floorData]
  ELSE
  LET wanted == IF requestParams.currency = Undefined \/ requestParams.currency = <<>>
                THEN floorData.data.currency ELSE requestParams.currency
      toConvert == Truthy(found.info.matchingFloor) /\ wanted # floorData.data.currency
  IN getFloorAdjusted(floorData, bid, found, matchingInput,
        IF toConvert /\ canConvert
        THEN Some(convertCurrency(found.info.matchingFloor[1], floorData.data.currency, wanted))
        ELSE found.info.matchingFloor,
        wanted)

\* getFloor from the matching floor on: the currency conversion;
\* canConvert is whether convertCurrency returns rather than throws
getFloorFound(floorData, bid, requestParams, canConvert, found, matchingInput) ==
  IF found.threw
  THEN [threw |-> TRUE, floor |-> NoFloor, context |-> floorData]
  ELSE
  LET wanted == IF requestParams.currency = Undefined \/ requestParams.currency = <<>>
                THEN floorData.data.currency ELSE requestParams.currency
      toConvert == Truthy(found.info.matchingFloor) /\ wanted # floorData.data.currency
  IN getFloorAdjusted(floorData, bid, found, matchingInput,
        IF toConvert /\ canConvert
        THEN Some(convertCurrency(found.info.matchingFloor[1], floorData.data.currency, wanted))
        ELSE found.info.matchingFloor,
        IF toConvert /\ ~canConvert THEN floorData.data.currency ELSE wanted)

\* getFloor once the media type and the size to match are settled
getFloorFor(floorData, bid, requestParams, canConvert, mediaType, size) ==
  getFloorFound(floorData, bid, requestParams, canConvert,
                getFirstMatchingFloor(floorData.data, bid, mediaType, size),
                matchingInputOf(floorData.data, bid, mediaType, size))

\* the media type getFloor matches on
floorMediaType(bid, requestParams) ==
  IF requestParams.mediaType = Star /\ Len(bid.mediaTypes) = 1
  THEN bid.mediaTypes[1].mediaType ELSE requestParams.mediaType

\* the size getFloor matches on
floorSize(bid, requestParams, mediaType) ==
  IF requestParams.size = Star /\ OnBid(bid, mediaType) /\ Len(SizesOf(bid, mediaType)) = 1
  THEN SizesOf(bid, mediaType)[1] ELSE requestParams.size

\* [threw, floor, context]: what the call returns and the context after it
getFloor(floorData, bid, requestParams, canConvert) ==
  IF ~floorData.exists \/ floorData.skipped
  THEN [threw |-> FALSE, floor |-> NoFloor, context |-> floorData]
  ELSE getFloorFor(floorData, bid, requestParams, canConvert,
                   floorMediaType(bid, requestParams),
                   floorSize(bid, requestParams, floorMediaType(bid, requestParams)))

\* ----------------------------------------------------- addBidResponseHook
NoResponseFloorData ==
  [present |-> FALSE, floorValue |-> None, floorRule |-> Undefined,
   floorCurrency |-> Undefined, cpmAfterAdjustments |-> 0,
   enforcements |-> NoEnforcement, matchedFields |-> <<>>]

\* bid.floorData as addFloorDataToBid writes it
addFloorDataToBid(floorData, floorInfo, bid, adjustedCpm) ==
  [present |-> TRUE,
   floorValue |-> floorInfo.matchingFloor,
   floorRule |-> floorInfo.matchingRule,
   floorCurrency |-> floorData.data.currency,
   cpmAfterAdjustments |-> adjustedCpm,
   enforcements |-> floorData.enforcement,
   matchedFields |->
     [index \in 1..Len(floorData.data.fields) |->
        LET parts == Split(floorInfo.matchingData, floorData.data.delimiter)
        IN [field |-> floorData.data.fields[index],
            value |-> IF index <= Len(parts) THEN parts[index] ELSE Undefined]]]

\* shouldFloorBid that also floors a bid whose cpm equals the floor
shouldFloorBidOrEqual(floorData, floorInfo, bid, bidFloorData) ==
  LET enforceJS == floorData.enforcement.enforceJS # "false"
      shouldFloorDeal == floorData.enforcement.floorDeals = "true" \/ ~bid.dealId
      bidBelowFloor == bidFloorData.cpmAfterAdjustments <= floorInfo.matchingFloor[1]
  IN enforceJS /\ (bidBelowFloor /\ shouldFloorDeal)

shouldFloorBid(floorData, floorInfo, bid, bidFloorData) ==
  LET enforceJS == floorData.enforcement.enforceJS # "false"
      shouldFloorDeal == floorData.enforcement.floorDeals = "true" \/ ~bid.dealId
      bidBelowFloor == bidFloorData.cpmAfterAdjustments < floorInfo.matchingFloor[1]
  IN enforceJS /\ (bidBelowFloor /\ shouldFloorDeal)

\* what fn is called with
Forward(bid, rejected, bidFloorData) ==
  [rejected |-> rejected,
   cpm |-> IF rejected THEN 0 ELSE bid.cpm,
   status |-> IF rejected THEN "bidRejected" ELSE bid.status,
   floorData |-> bidFloorData]

\* find(bidderRequest.bids, bidRequest => bidRequest.bidId && bidRequest.bidId === bid.requestId)
HasMatchingBidRequest(bids, bid) == \E i \in 1..Len(bids) : bids[i].bidId = bid.requestId
MatchingBidRequest(bids, bid) ==
  bids[CHOOSE i \in 1..Len(bids) :
         /\ bids[i].bidId = bid.requestId
         /\ \A j \in 1..(i - 1) : bids[j].bidId # bid.requestId]

\* the cpm compared as it came when the conversion throws
addBidResponseHookUnconverted(floorData, bids, bid, canConvert) ==
  LET pass == [threw |-> FALSE, calls |-> 1,
               forwarded |-> Forward(bid, FALSE, NoResponseFloorData), context |-> floorData]
  IN IF ~floorData.exists \/ floorData.skipped \/ ~HasMatchingBidRequest(bids, bid)
     THEN pass
     ELSE
     LET matchingBidRequest == MatchingBidRequest(bids, bid)
         found == getFirstMatchingFloor(floorData.data, matchingBidRequest, bid.mediaType, bid.size)
         floorInfo == found.info
         after == [floorData EXCEPT !.data = found.data]
         floorCurrency == toUpperCase(floorData.data.currency)
         bidResponseCurrency == IF bid.currency = Undefined \/ bid.currency = <<>>
                                THEN <<"USD">> ELSE bid.currency
         sameCurrency == floorCurrency = toUpperCase(bidResponseCurrency)
         originalMatches == /\ bid.originalCurrency # Undefined
                            /\ bid.originalCurrency # <<>>
                            /\ floorCurrency = toUpperCase(bid.originalCurrency)
         baseCpm == IF sameCurrency THEN bid.cpm
                    ELSE IF originalMatches THEN bid.originalCpm
                    ELSE IF ~canConvert THEN bid.cpm
                    ELSE convertCurrency(bid.cpm, toUpperCase(bidResponseCurrency), floorCurrency)
         adjustedCpm == getBiddersCpmAdjustment(bid.bidderCode, baseCpm)
         bidFloorData == addFloorDataToBid(floorData, floorInfo, bid, adjustedCpm)
     IN IF found.threw
        THEN [threw |-> TRUE, calls |-> 0,
              forwarded |-> Forward(bid, FALSE, NoResponseFloorData), context |-> floorData]
        ELSE IF ~Truthy(floorInfo.matchingFloor)
        THEN [pass EXCEPT !.context = after]
        ELSE [threw |-> FALSE, calls |-> 1,
              forwarded |-> Forward(bid, shouldFloorBid(floorData, floorInfo, bid, bidFloorData),
                                    bidFloorData),
              context |-> after]

\* [threw, calls, forwarded, context]: the calls of fn, its argument, and the
\* auction's context after the hook; canConvert as in getFloor
addBidResponseHook(floorData, bids, bid, canConvert) ==
  LET pass == [threw |-> FALSE, calls |-> 1,
               forwarded |-> Forward(bid, FALSE, NoResponseFloorData), context |-> floorData]
  IN IF ~floorData.exists \/ floorData.skipped \/ ~HasMatchingBidRequest(bids, bid)
     THEN pass
     ELSE
     LET matchingBidRequest == MatchingBidRequest(bids, bid)
         found == getFirstMatchingFloor(floorData.data, matchingBidRequest, bid.mediaType, bid.size)
         floorInfo == found.info
         after == [floorData EXCEPT !.data = found.data]
         floorCurrency == toUpperCase(floorData.data.currency)
         bidResponseCurrency == IF bid.currency = Undefined \/ bid.currency = <<>>
                                THEN <<"USD">> ELSE bid.currency
         sameCurrency == floorCurrency = toUpperCase(bidResponseCurrency)
         originalMatches == /\ bid.originalCurrency # Undefined
                            /\ bid.originalCurrency # <<>>
                            /\ floorCurrency = toUpperCase(bid.originalCurrency)
         baseCpm == IF sameCurrency THEN bid.cpm
                    ELSE IF originalMatches THEN bid.originalCpm
                    ELSE convertCurrency(bid.cpm, toUpperCase(bidResponseCurrency), floorCurrency)
         adjustedCpm == getBiddersCpmAdjustment(bid.bidderCode, baseCpm)
         bidFloorData == addFloorDataToBid(floorData, floorInfo, bid, adjustedCpm)
     IN IF found.threw
        THEN [threw |-> TRUE, calls |-> 0,
              forwarded |-> Forward(bid, FALSE, NoResponseFloorData), context |-> floorData]
        ELSE IF ~Truthy(floorInfo.matchingFloor)
        THEN [pass EXCEPT !.context = after]
        ELSE IF ~sameCurrency /\ ~originalMatches /\ ~canConvert
        THEN [pass EXCEPT !.context = after]
        ELSE [threw |-> FALSE, calls |-> 1,
              forwarded |-> Forward(bid, shouldFloorBid(floorData, floorInfo, bid, bidFloorData),
                                    bidFloorData),
              context |-> after]

\* ------------------------------------------------------------------ state
VARIABLES
  fetching,              \* an ajax call for floors is in progress
  addedFloorsHook,       \* the hooks are registered
  _floorsConfig,         \* the config in use
  _delayedAuctions,      \* hookConfigs held back by a fetch, as auction ids
  _floorDataForAuction,  \* auction id -> what createFloorsDataForAuction gave
  hookConfig,            \* auction id -> the hookConfig requestBidsHook made
  timers,                \* auction id -> state of its setTimeout timer
  adUnits,               \* auction id -> reqBidsConfigObj.adUnits
  nextCalls,             \* auction id -> number of calls of hookConfig.nextFn
  requests,              \* ajax requests sent and not yet answered
  registered,            \* hooks and listeners registered with the core
  ended,                 \* auction id -> its AUCTION_END event was emitted
  getFloorCalls,         \* number of getFloor calls so far
  result                 \* what the last getFloor or addBidResponseHook call gave

vars == <<fetching, addedFloorsHook, _floorsConfig, _delayedAuctions,
          _floorDataForAuction, hookConfig, timers, adUnits, nextCalls,
          requests, registered, ended, getFloorCalls, result>>

\* let _floorsConfig = {}
EmptyConfig ==
  [enabled |-> "undefined", auctionDelay |-> 0, endpoint |-> [url |-> FALSE, method |-> "undefined"],
   hasEnforcement |-> FALSE, enforcement |-> NoEnforcement, data |-> NoData]

NoHookConfig == [made |-> FALSE, timer |-> "null", hasExited |-> FALSE]

NoBid ==
  [requestId |-> <<0, 0>>, cpm |-> 0, currency |-> Undefined, mediaType |-> Undefined,
   size |-> Undefined, bidderCode |-> "none", dealId |-> FALSE,
   originalCpm |-> 0, originalCurrency |-> Undefined, status |-> "none"]

NoResult ==
  [op |-> "none", auction |-> "none", threw |-> FALSE, calls |-> 0,
   bid |-> NoBid, forwarded |-> Forward(NoBid, FALSE, NoResponseFloorData),
   floor |-> NoFloor, before |-> NoContext,
   requestParams |-> [mediaType |-> Undefined, size |-> Undefined, currency |-> Undefined],
   canConvert |-> TRUE, bidId |-> <<0, 0>>]

Init ==
  /\ fetching = FALSE
  /\ addedFloorsHook = FALSE
  /\ _floorsConfig = EmptyConfig
  /\ _delayedAuctions = <<>>
  /\ _floorDataForAuction = [a \in Auctions |-> NoContext]
  /\ hookConfig = [a \in Auctions |-> NoHookConfig]
  /\ timers = [a \in Auctions |-> "none"]
  /\ adUnits = [a \in Auctions |-> <<>>]
  /\ nextCalls = [a \in Auctions |-> 0]
  /\ requests = 0
  /\ registered = [requestBids |-> 0, addBidResponse |-> 0, auctionEnd |-> 0]
  /\ ended = [a \in Auctions |-> FALSE]
  /\ getFloorCalls = 0
  /\ result = NoResult

\* ------------------------------------------------------- continueAuction
\* the part of the state continueAuction works on
Auctioning ==
  [delayed |-> _delayedAuctions, floorData |-> _floorDataForAuction,
   hookConfig |-> hookConfig, timers |-> timers, adUnits |-> adUnits,
   nextCalls |-> nextCalls]

\* continueAuction without its once-only bookkeeping
continueAuctionUnguarded(st, a, floorsConfig, random) ==
  LET created == createFloorsDataForAuction(st.adUnits[a], floorsConfig, random)
  IN [st EXCEPT !.floorData[a] = created.context,
                !.adUnits[a] = created.adUnits,
                !.nextCalls[a] = @ + 1]

\* continueAuction that leaves the auction on the delayed queue
continueAuctionNoDequeue(st, a, floorsConfig, random) ==
  IF st.hookConfig[a].hasExited THEN st
  ELSE LET created == createFloorsDataForAuction(st.adUnits[a], floorsConfig, random)
       IN [st EXCEPT
             !.floorData[a] = created.context,
             !.adUnits[a] = created.adUnits,
             !.nextCalls[a] = @ + 1,
             !.hookConfig[a].hasExited = TRUE]

continueAuction(st, a, floorsConfig, random) ==
  IF st.hookConfig[a].hasExited THEN st
  ELSE LET created == createFloorsDataForAuction(st.adUnits[a], floorsConfig, random)
       IN [st EXCEPT
             !.delayed = SelectSeq(@, LAMBDA x : st.hookConfig[x].timer # st.hookConfig[a].timer),
             !.floorData[a] = created.context,
             !.adUnits[a] = created.adUnits,
             !.nextCalls[a] = @ + 1,
             !.hookConfig[a].hasExited = TRUE]

\* a forEach that stops after the first delayed auction
resumeEachFirstOnly(st, queue, floorsConfig, random) ==
  IF Len(queue) = 0 THEN st
  ELSE LET a == Head(queue)
           cleared == [st EXCEPT !.timers[a] = IF @ = "pending" THEN "cleared" ELSE @]
       IN continueAuction(cleared, a, floorsConfig, random[a])

RECURSIVE resumeEach(_, _, _, _)
\* _delayedAuctions.forEach(...), over the array as it was when the loop began
resumeEach(st, queue, floorsConfig, random) ==
  IF Len(queue) = 0 THEN st
  ELSE LET a == Head(queue)
           cleared == [st EXCEPT !.timers[a] = IF @ = "pending" THEN "cleared" ELSE @]
       IN resumeEach(continueAuction(cleared, a, floorsConfig, random[a]),
                     Tail(queue), floorsConfig, random)

resumeDelayedAuctions(st, floorsConfig, random) ==
  [resumeEach(st, st.delayed, floorsConfig, random) EXCEPT !.delayed = <<>>]

\* the variables continueAuction works on take the values of st
Becomes(st) ==
  /\ _delayedAuctions' = st.delayed
  /\ _floorDataForAuction' = st.floorData
  /\ hookConfig' = st.hookConfig
  /\ timers' = st.timers
  /\ adUnits' = st.adUnits
  /\ nextCalls' = st.nextCalls

\* ----------------------------------------------------------------- inputs
\* the test suite's basicFloorData, its amounts a hundredth of the suite's
basicFloorData ==
  Doc(<<"basic model">>, <<"USD">>, None, <<"mediaType">>, <<"|">>,
      <<Rule(<<"banner">>, Num(1000)), Rule(<<"video">>, Num(3000)),
        Rule(<<"*">>, Num(2500))>>, None)

fetchFloorData == [basicFloorData EXCEPT !.modelVersion = <<"fetch model name">>]

\* a table every auction of which is skipped
skipFloorData ==
  [basicFloorData EXCEPT !.modelVersion = <<"skip model">>, !.skipRate = Some(100)]

\* rules by GPT slot, one rule with a segment too many
slotFloorData ==
  Doc(<<"slot model">>, Undefined, None, <<"gptSlot", "mediaType">>, Undefined,
      <<Rule(<<"slot1", "|", "banner">>, Num(2000)),
        Rule(<<"slot1", "|", "banner", "|", "*">>, Num(1))>>, Some(500))

\* not a floors document: an unknown schema field
badFloorData == [basicFloorData EXCEPT !.fields = <<"mediaType", "weather">>]

\* a response body that is not JSON
notJson == [NoData EXCEPT !.type = "text"]

basicEnforcement ==
  [enforceJS |-> "true", enforcePBS |-> "false", floorDeals |-> "false", bidAdjustment |-> "true"]

basicFloorConfig ==
  [enabled |-> "true", auctionDelay |-> 0, endpoint |-> [url |-> FALSE, method |-> "undefined"],
   enforcement |-> basicEnforcement, data |-> basicFloorData]

fakeFloorProvider == [url |-> TRUE, method |-> "undefined"]

\* the test suite's config of a fetch with an auction delay
delayConfig == [basicFloorConfig EXCEPT !.auctionDelay = 250, !.endpoint = fakeFloorProvider]

\* an endpoint that is not GET, and data that is not valid
postConfig ==
  [basicFloorConfig EXCEPT !.endpoint = [url |-> TRUE, method |-> "POST"],
                           !.enabled = "undefined", !.data = badFloorData]

offConfig == [basicFloorConfig EXCEPT !.enabled = "false"]

\* deals are floored too; the other flags are left out
dealsConfig ==
  [basicFloorConfig EXCEPT !.enforcement = [NoEnforcement EXCEPT !.floorDeals = "true"]]

\* no enforcement in the browser
noEnforceConfig ==
  [basicFloorConfig EXCEPT !.enforcement = [basicEnforcement EXCEPT !.enforceJS = "false"]]

\* the floors configs setConfig is called with
ConfigInputs == { delayConfig, postConfig, offConfig }
GateConfigInputs == { delayConfig, offConfig, dealsConfig, noEnforceConfig }

\* the bodies the floor provider answers with
FetchResponses == { fetchFloorData, notJson }
GateFetchResponses == { slotFloorData, skipFloorData }

Bidder(name) == [bidder |-> name, getFloor |-> FALSE, floorData |-> NoBidFloorData]

\* the test suite's getAdUnitMock; gptSlot is the slot GPT has for the code
AdUnit(code, gptSlot, floors) ==
  [code |-> code, gptSlot |-> gptSlot, floors |-> floors,
   mediaTypes |-> <<[mediaType |-> <<"banner">>, sizes |-> <<<<"300x200">>, <<"300x600">>>>]>>,
   bids |-> <<Bidder("rubicon"), Bidder("appnexus")>>]

\* the adUnits requestBids is called with
AdUnitInputs ==
  { <<AdUnit(<<"div1">>, <<"slot1">>, NoData)>>,
    <<AdUnit(<<"div1">>, Undefined, [basicFloorData EXCEPT !.modelVersion = <<"adUnit model">>]),
      AdUnit(<<"div2">>, Undefined, NoData)>> }

\* Math.random() * 100
Randoms == {0, 99}

\* the bid requests of an auction's bidderRequest, made from its ad units
RECURSIVE BidRequests(_, _)
BidRequests(units, i) ==
  IF i > Len(units) THEN <<>>
  ELSE [j \in 1..Len(units[i].bids) |->
          [bidId |-> <<i, j>>, bidder |-> units[i].bids[j].bidder,
           adUnitCode |-> units[i].code, gptSlot |-> units[i].gptSlot,
           mediaTypes |-> units[i].mediaTypes]]
       \o BidRequests(units, i + 1)

\* the test suite's basicBidResponse
basicBidResponse ==
  [NoBid EXCEPT !.requestId = <<1, 2>>, !.cpm = 500, !.mediaType = <<"banner">>,
                !.size = <<"300x250">>, !.bidderCode = "appnexus", !.status = "bid"]

\* the bid responses of the bidders
BidInputs ==
  { basicBidResponse,
    [basicBidResponse EXCEPT !.cpm = 1000],
    [basicBidResponse EXCEPT !.dealId = TRUE],
    [basicBidResponse EXCEPT !.requestId = <<1, 1>>, !.bidderCode = "rubicon", !.cpm = 2000],
    [basicBidResponse EXCEPT !.currency = <<"EUR">>],
    [basicBidResponse EXCEPT !.requestId = <<9, 9>>] }

\* the requestParams of getFloor calls; the first is the default parameter
ParamInputs ==
  { [mediaType |-> Star, size |-> Star, currency |-> <<"USD">>],
    [mediaType |-> <<"video">>, size |-> Undefined, currency |-> <<"EUR">>] }

\* ---------------------------------------------------------------- actions
\* generateAndHandleFetch: [fetching, requests] after the call
generateAndHandleFetchAlways(floorEndpoint, isFetching, outstanding) ==
  IF floorEndpoint.url
  THEN IF floorEndpoint.method # "undefined" /\ floorEndpoint.method # "GET"
       THEN [fetching |-> isFetching, requests |-> outstanding]
       ELSE [fetching |-> TRUE, requests |-> outstanding + 1]
  ELSE [fetching |-> isFetching, requests |-> outstanding]

\* the fetch marked as occurring whatever the method
generateAndHandleFetchAnyMethod(floorEndpoint, isFetching, outstanding) ==
  IF floorEndpoint.url /\ ~isFetching
  THEN IF floorEndpoint.method # "undefined" /\ floorEndpoint.method # "GET"
       THEN [fetching |-> TRUE, requests |-> outstanding]
       ELSE [fetching |-> TRUE, requests |-> outstanding + 1]
  ELSE [fetching |-> isFetching, requests |-> outstanding]

generateAndHandleFetch(floorEndpoint, isFetching, outstanding) ==
  IF floorEndpoint.url /\ ~isFetching
  THEN IF floorEndpoint.method # "undefined" /\ floorEndpoint.method # "GET"
       THEN [fetching |-> isFetching, requests |-> outstanding]
       ELSE [fetching |-> TRUE, requests |-> outstanding + 1]
  ELSE [fetching |-> isFetching, requests |-> outstanding]

\* the enforcement flags taken as given, true only when given as true
pickEnforcementAsGiven(enforcement) ==
  [enforceJS |-> IF enforcement.enforceJS = "true" THEN "true" ELSE "false",
   enforcePBS |-> IF enforcement.enforcePBS = "true" THEN "true" ELSE "false",
   floorDeals |-> IF enforcement.floorDeals = "true" THEN "true" ELSE "false",
   bidAdjustment |-> IF enforcement.bidAdjustment = "true" THEN "true" ELSE "false"]

\* the enforcement flags utils.pick makes of the enforcement given
pickEnforcement(enforcement) ==
  [enforceJS |-> IF enforcement.enforceJS # "false" THEN "true" ELSE "false",
   enforcePBS |-> IF enforcement.enforcePBS = "true" THEN "true" ELSE "false",
   floorDeals |-> IF enforcement.floorDeals = "true" THEN "true" ELSE "false",
   bidAdjustment |-> IF enforcement.bidAdjustment # "false" THEN "true" ELSE "false"]

\* the _floorsConfig utils.pick makes of the config given
pickConfig(config, oldConfig) ==
  [enabled |-> IF config.enabled # "false" THEN "true" ELSE "false",
   auctionDelay |-> config.auctionDelay,
   endpoint |-> config.endpoint,
   hasEnforcement |-> TRUE,
   enforcement |-> pickEnforcement(config.enforcement),
   data |-> LET parsed == parseFloorData(config.data, <<"setConfig">>)
            IN IF parsed.type = "object" THEN parsed ELSE oldConfig.data]

\* handleSetFloorsConfig that registers its hooks every time it turns the module on
handleSetFloorsConfigRegistering(config) ==
  /\ config.enabled # "false" => registered.auctionEnd < MaxRegistrations
  /\ LET picked == pickConfig(config, _floorsConfig)
         fetch == generateAndHandleFetch(picked.endpoint, fetching, requests)
     IN IF picked.enabled = "true"
        THEN /\ _floorsConfig' = picked
             /\ fetching' = fetch.fetching
             /\ requests' = fetch.requests
             /\ registered' =
                  [requestBids |-> registered.requestBids + 1,
                   addBidResponse |-> registered.addBidResponse + 1,
                   auctionEnd |-> registered.auctionEnd + 1]
             /\ addedFloorsHook' = TRUE
             /\ UNCHANGED _floorDataForAuction
        ELSE /\ _floorsConfig' = EmptyConfig
             /\ _floorDataForAuction' = [a \in Auctions |-> NoContext]
             /\ registered' = [registered EXCEPT !.requestBids = 0, !.addBidResponse = 0]
             /\ addedFloorsHook' = FALSE
             /\ UNCHANGED <<fetching, requests>>
  /\ UNCHANGED <<_delayedAuctions, hookConfig, timers, adUnits, nextCalls, ended,
                 getFloorCalls, result>>

handleSetFloorsConfig(config) ==
  /\ (config.enabled # "false" /\ ~addedFloorsHook) => registered.auctionEnd < MaxRegistrations
  /\ LET picked == pickConfig(config, _floorsConfig)
         fetch == generateAndHandleFetch(picked.endpoint, fetching, requests)
     IN IF picked.enabled = "true"
        THEN /\ _floorsConfig' = picked
             /\ fetching' = fetch.fetching
             /\ requests' = fetch.requests
             /\ registered' =
                  IF addedFloorsHook THEN registered
                  ELSE [requestBids |-> registered.requestBids + 1,
                        addBidResponse |-> registered.addBidResponse + 1,
                        auctionEnd |-> registered.auctionEnd + 1]
             /\ addedFloorsHook' = TRUE
             /\ UNCHANGED _floorDataForAuction
        ELSE /\ _floorsConfig' = EmptyConfig
             /\ _floorDataForAuction' = [a \in Auctions |-> NoContext]
             /\ registered' = [registered EXCEPT !.requestBids = 0, !.addBidResponse = 0]
             /\ addedFloorsHook' = FALSE
             /\ UNCHANGED <<fetching, requests>>
  /\ UNCHANGED <<_delayedAuctions, hookConfig, timers, adUnits, nextCalls, ended,
                 getFloorCalls, result>>

\* requestBidsHook that queues the auction without starting its timer
requestBidsHookNoTimer(a, units, random) ==
  /\ registered.requestBids > 0
  /\ ~hookConfig[a].made
  /\ \A b \in Auctions : Before(b, a) => hookConfig[b].made
  /\ LET made == [Auctioning EXCEPT !.hookConfig[a] = [NoHookConfig EXCEPT !.made = TRUE],
                                    !.adUnits[a] = units]
     IN IF _floorsConfig.auctionDelay > 0 /\ fetching
        THEN Becomes([made EXCEPT !.hookConfig[a].timer = a,
                                  !.delayed = Append(@, a)])
        ELSE Becomes(continueAuction(made, a, _floorsConfig, random))
  /\ UNCHANGED <<fetching, addedFloorsHook, _floorsConfig, requests, registered,
                 ended, getFloorCalls, result>>

\* requestBidsHook that waits for a fetch whatever the auction delay
requestBidsHookAnyDelay(a, units, random) ==
  /\ registered.requestBids > 0
  /\ ~hookConfig[a].made
  /\ \A b \in Auctions : Before(b, a) => hookConfig[b].made
  /\ LET made == [Auctioning EXCEPT !.hookConfig[a] = [NoHookConfig EXCEPT !.made = TRUE],
                                    !.adUnits[a] = units]
     IN IF fetching
        THEN Becomes([made EXCEPT !.hookConfig[a].timer = a,
                                  !.timers[a] = "pending",
                                  !.delayed = Append(@, a)])
        ELSE Becomes(continueAuction(made, a, _floorsConfig, random))
  /\ UNCHANGED <<fetching, addedFloorsHook, _floorsConfig, requests, registered,
                 ended, getFloorCalls, result>>

\* pbjs.requestBids({auctionId: a, adUnits: units}) reaching the hook
requestBidsHook(a, units, random) ==
  /\ registered.requestBids > 0
  /\ ~hookConfig[a].made
  /\ \A b \in Auctions : Before(b, a) => hookConfig[b].made
  /\ LET made == [Auctioning EXCEPT !.hookConfig[a] = [NoHookConfig EXCEPT !.made = TRUE],
                                    !.adUnits[a] = units]
     IN IF _floorsConfig.auctionDelay > 0 /\ fetching
        THEN Becomes([made EXCEPT !.hookConfig[a].timer = a,
                                  !.timers[a] = "pending",
                                  !.delayed = Append(@, a)])
        ELSE Becomes(continueAuction(made, a, _floorsConfig, random))
  /\ UNCHANGED <<fetching, addedFloorsHook, _floorsConfig, requests, registered,
                 ended, getFloorCalls, result>>

\* the setTimeout callback of a delayed auction
timerFires(a, random) ==
  /\ timers[a] = "pending"
  /\ Becomes(continueAuction([Auctioning EXCEPT !.timers[a] = "fired"], a, _floorsConfig, random))
  /\ UNCHANGED <<fetching, addedFloorsHook, _floorsConfig, requests, registered,
                 ended, getFloorCalls, result>>

\* handleFetchResponse storing whatever parseFloorData returns
fetchedDataOrNothing(fetchResponse, floorsConfig) ==
  parseFloorData(fetchResponse, <<"fetch">>)

\* _floorsConfig.data after handleFetchResponse
fetchedData(fetchResponse, floorsConfig) ==
  LET parsed == parseFloorData(fetchResponse, <<"fetch">>)
  IN IF parsed.type = "object" THEN parsed ELSE floorsConfig.data

\* handleFetchResponse that also rebuilds the context of every running auction
handleFetchResponseRefreshing(fetchResponse, random) ==
  /\ requests > 0
  /\ requests' = requests - 1
  /\ fetching' = FALSE
  /\ _floorsConfig' = [_floorsConfig EXCEPT !.data = fetchedData(fetchResponse, _floorsConfig)]
  /\ LET resumed == resumeDelayedAuctions(Auctioning, _floorsConfig', random)
     IN Becomes([resumed EXCEPT !.floorData =
                   [a \in Auctions |->
                      IF resumed.floorData[a].exists
                      THEN createFloorsDataForAuction(resumed.adUnits[a], _floorsConfig', random[a]).context
                      ELSE resumed.floorData[a]]])
  /\ UNCHANGED <<addedFloorsHook, registered, ended, getFloorCalls, result>>

\* handleFetchResponse that resumes the auctions before it stores the data
handleFetchResponseStale(fetchResponse, random) ==
  /\ requests > 0
  /\ requests' = requests - 1
  /\ fetching' = FALSE
  /\ _floorsConfig' = [_floorsConfig EXCEPT !.data = fetchedData(fetchResponse, _floorsConfig)]
  /\ Becomes(resumeDelayedAuctions(Auctioning, _floorsConfig, random))
  /\ UNCHANGED <<addedFloorsHook, registered, ended, getFloorCalls, result>>

handleFetchResponse(fetchResponse, random) ==
  /\ requests > 0
  /\ requests' = requests - 1
  /\ fetching' = FALSE
  /\ _floorsConfig' = [_floorsConfig EXCEPT !.data = fetchedData(fetchResponse, _floorsConfig)]
  /\ Becomes(resumeDelayedAuctions(Auctioning, _floorsConfig', random))
  /\ UNCHANGED <<addedFloorsHook, registered, ended, getFloorCalls, result>>

\* handleFetchError that leaves the delayed auctions to their timers
handleFetchErrorNoResume(random) ==
  /\ requests > 0
  /\ requests' = requests - 1
  /\ fetching' = FALSE
  /\ UNCHANGED <<addedFloorsHook, _floorsConfig, _delayedAuctions, _floorDataForAuction,
                 hookConfig, timers, adUnits, nextCalls, registered, ended, getFloorCalls,
                 result>>

handleFetchError(random) ==
  /\ requests > 0
  /\ requests' = requests - 1
  /\ fetching' = FALSE
  /\ Becomes(resumeDelayedAuctions(Auctioning, _floorsConfig, random))
  /\ UNCHANGED <<addedFloorsHook, _floorsConfig, registered, ended, getFloorCalls, result>>

\* an AUCTION_END listener that forgets the context of every auction
auctionEndAll(a) ==
  /\ nextCalls[a] > 0
  /\ ~ended[a]
  /\ ended' = [ended EXCEPT ![a] = TRUE]
  /\ _floorDataForAuction' =
       IF registered.auctionEnd > 0
       THEN [b \in Auctions |-> NoContext]
       ELSE _floorDataForAuction
  /\ UNCHANGED <<fetching, addedFloorsHook, _floorsConfig, _delayedAuctions, hookConfig,
                 timers, adUnits, nextCalls, requests, registered, getFloorCalls, result>>

\* the AUCTION_END listeners: delete _floorDataForAuction[args.auctionId]
auctionEnd(a) ==
  /\ nextCalls[a] > 0
  /\ ~ended[a]
  /\ ended' = [ended EXCEPT ![a] = TRUE]
  /\ _floorDataForAuction' =
       IF registered.auctionEnd > 0
       THEN [_floorDataForAuction EXCEPT ![a] = NoContext]
       ELSE _floorDataForAuction
  /\ UNCHANGED <<fetching, addedFloorsHook, _floorsConfig, _delayedAuctions, hookConfig,
                 timers, adUnits, nextCalls, requests, registered, getFloorCalls, result>>

\* a bidder calls getFloor on bid request number k of auction a
callGetFloor(a, k, requestParams, canConvert) ==
  /\ nextCalls[a] > 0
  /\ k \in 1..Len(BidRequests(adUnits[a], 1))
  /\ getFloorCalls < MaxGetFloorCalls
  /\ getFloorCalls' = getFloorCalls + 1
  /\ \E got \in {getFloor(_floorDataForAuction[a], BidRequests(adUnits[a], 1)[k],
                          requestParams, canConvert)} :
        /\ _floorDataForAuction' = [_floorDataForAuction EXCEPT ![a] = got.context]
        /\ result' = [NoResult EXCEPT !.op = "getFloor", !.auction = a,
                                      !.threw = got.threw, !.floor = got.floor,
                                      !.before = _floorDataForAuction[a],
                                      !.requestParams = requestParams,
                                      !.canConvert = canConvert,
                                      !.bidId = BidRequests(adUnits[a], 1)[k].bidId]
  /\ UNCHANGED <<fetching, addedFloorsHook, _floorsConfig, _delayedAuctions, hookConfig,
                 timers, adUnits, nextCalls, requests, registered, ended>>

\* a bid response of auction a reaching the addBidResponse hook
bidResponse(a, bid, canConvert) ==
  /\ registered.addBidResponse > 0
  /\ nextCalls[a] > 0
  /\ \E got \in {addBidResponseHook(_floorDataForAuction[a], BidRequests(adUnits[a], 1),
                                     bid, canConvert)} :
        /\ _floorDataForAuction' = [_floorDataForAuction EXCEPT ![a] = got.context]
        /\ result' = [NoResult EXCEPT !.op = "addBidResponse", !.auction = a,
                                      !.threw = got.threw, !.calls = got.calls,
                                      !.bid = bid, !.forwarded = got.forwarded,
                                      !.before = _floorDataForAuction[a],
                                      !.canConvert = canConvert]
  /\ UNCHANGED <<fetching, addedFloorsHook, _floorsConfig, _delayedAuctions, hookConfig,
                 timers, adUnits, nextCalls, requests, registered, ended, getFloorCalls>>

SetConfig == \E config \in ConfigInputs : handleSetFloorsConfig(config)
RequestBids == \E a \in Auctions, units \in AdUnitInputs, random \in Randoms :
                  requestBidsHook(a, units, random)
TimerFires == \E a \in Auctions, random \in Randoms : timerFires(a, random)
FetchResponse == \E fetchResponse \in FetchResponses, random \in [Auctions -> Randoms] :
                    handleFetchResponse(fetchResponse, random)
FetchError == \E random \in [Auctions -> Randoms] : handleFetchError(random)

\* setConfig, auctions and the floors fetch
Next ==
  \/ SetConfig
  \/ RequestBids
  \/ TimerFires
  \/ FetchResponse
  \/ FetchError

Spec == Init /\ [][Next]_vars

\* the step of the setTimeout callback as the timers show it: only timerFires
\* turns a pending timer into a fired one, and it can whenever one is pending
timerFired(a) == timers[a] = "pending" /\ timers' = [timers EXCEPT ![a] = "fired"]

\* every started delay timer fires in the end
FairSpec == Spec /\ \A a \in Auctions : WF_timers(timerFired(a))

GateSetConfig == \E config \in GateConfigInputs : handleSetFloorsConfig(config)
GateRequestBids == \E units \in AdUnitInputs, random \in Randoms :
                      requestBidsHook("a1", units, random)
GateFetchResponse == \E fetchResponse \in GateFetchResponses, random \in [Auctions -> Randoms] :
                        handleFetchResponse(fetchResponse, random)
AuctionEnd == \E a \in Auctions : auctionEnd(a)
BidResponse == \E a \in Auctions, bid \in BidInputs, canConvert \in BOOLEAN :
                  bidResponse(a, bid, canConvert)

\* one auction from setConfig to its end, with its bid responses
GateNext ==
  \/ GateSetConfig
  \/ GateRequestBids
  \/ TimerFires
  \/ GateFetchResponse
  \/ AuctionEnd
  \/ BidResponse

GateSpec == Init /\ [][GateNext]_vars

GetFloor == \E a \in Auctions, k \in 1..2, requestParams \in ParamInputs, canConvert \in BOOLEAN :
               callGetFloor(a, k, requestParams, canConvert)

\* two auctions side by side, with their getFloor calls and bid responses
PairConfigInputs == { delayConfig, offConfig }
PairFetchResponses == { fetchFloorData }
PairParamInputs == { [mediaType |-> Star, size |-> Star, currency |-> <<"USD">>] }
PairBidInputs == { basicBidResponse }

PairSetConfig == \E config \in PairConfigInputs : handleSetFloorsConfig(config)
PairFetchResponse == \E fetchResponse \in PairFetchResponses, random \in [Auctions -> Randoms] :
                        handleFetchResponse(fetchResponse, random)
PairGetFloor == \E a \in Auctions, requestParams \in PairParamInputs :
                   callGetFloor(a, 1, requestParams, TRUE)
PairBidResponse == \E a \in Auctions, bid \in PairBidInputs : bidResponse(a, bid, TRUE)

PairNext ==
  \/ PairSetConfig
  \/ RequestBids
  \/ TimerFires
  \/ PairFetchResponse
  \/ PairGetFloor
  \/ PairBidResponse

PairSpec == Init /\ [][PairNext]_vars

\* one auction under tables with a skip rate
skipHalfFloorData ==
  [basicFloorData EXCEPT !.modelVersion = <<"skip half model">>, !.skipRate = Some(50)]
skipNoneFloorData ==
  [basicFloorData EXCEPT !.modelVersion = <<"skip none model">>, !.skipRate = Some(0)]
SkipFetchResponses == { skipFloorData, skipHalfFloorData, skipNoneFloorData }
SkipBidInputs == { basicBidResponse, [basicBidResponse EXCEPT !.requestId = <<9, 9>>] }

SkipFetchResponse == \E fetchResponse \in SkipFetchResponses, random \in [Auctions -> Randoms] :
                        handleFetchResponse(fetchResponse, random)
SkipGetFloor == \E k \in 1..2, requestParams \in ParamInputs :
                   callGetFloor("a1", k, requestParams, TRUE)
SkipBidResponse == \E bid \in SkipBidInputs : bidResponse("a1", bid, TRUE)

SkipNext ==
  \/ PairSetConfig
  \/ GateRequestBids
  \/ TimerFires
  \/ SkipFetchResponse
  \/ SkipGetFloor
  \/ SkipBidResponse

SkipSpec == Init /\ [][SkipNext]_vars

\* one auction and the sources of its table: setConfig, the fetch, the ad units
noRuleFloorData ==
  [basicFloorData EXCEPT !.modelVersion = <<"no rule model">>,
                         !.values = <<Rule(<<"banner", "|", "300x250">>, Num(1000))>>]
SourceConfigInputs == { basicFloorConfig, delayConfig, postConfig, offConfig }
SourceFetchResponses == { fetchFloorData, notJson, badFloorData, noRuleFloorData }
SourceAdUnitInputs ==
  AdUnitInputs \cup
  { <<AdUnit(<<"div1">>, Undefined, badFloorData)>>,
    <<AdUnit(<<"div1">>, Undefined, noRuleFloorData),
      AdUnit(<<"div2">>, Undefined, [basicFloorData EXCEPT !.modelVersion = <<"adUnit model">>])>> }

SourceSetConfig == \E config \in SourceConfigInputs : handleSetFloorsConfig(config)
SourceRequestBids == \E units \in SourceAdUnitInputs, random \in Randoms :
                        requestBidsHook("a1", units, random)
SourceFetchResponse == \E fetchResponse \in SourceFetchResponses, random \in [Auctions -> Randoms] :
                          handleFetchResponse(fetchResponse, random)

SourceNext ==
  \/ SourceSetConfig
  \/ SourceRequestBids
  \/ TimerFires
  \/ SourceFetchResponse

SourceSpec == Init /\ [][SourceNext]_vars

\* two auctions to their ends, with getFloor calls and bid responses around them
EndConfigInputs == { basicFloorConfig, offConfig }

EndSetConfig == \E config \in EndConfigInputs : handleSetFloorsConfig(config)

EndNext ==
  \/ EndSetConfig
  \/ RequestBids
  \/ AuctionEnd
  \/ PairGetFloor
  \/ PairBidResponse

EndSpec == Init /\ [][EndNext]_vars

\* one auction whose bid responses find no floor: tables without a default
videoFloorData ==
  Doc(<<"video model">>, <<"USD">>, None, <<"mediaType">>, <<"|">>,
      <<Rule(<<"video">>, Num(3000))>>, None)
slotOnlyFloorData ==
  Doc(<<"slot only model">>, <<"USD">>, None, <<"gptSlot", "mediaType">>, <<"|">>,
      <<Rule(<<"slot1", "|", "banner">>, Num(2000))>>, None)
FrameConfigInputs ==
  { [basicFloorConfig EXCEPT !.data = videoFloorData],
    [basicFloorConfig EXCEPT !.data = slotOnlyFloorData],
    [basicFloorConfig EXCEPT !.data = skipFloorData],
    offConfig }
FrameBidInputs ==
  { basicBidResponse,
    [basicBidResponse EXCEPT !.requestId = <<9, 9>>],
    [basicBidResponse EXCEPT !.mediaType = <<"video">>] }

FrameSetConfig == \E config \in FrameConfigInputs : handleSetFloorsConfig(config)
FrameBidResponse == \E bid \in FrameBidInputs : bidResponse("a1", bid, TRUE)

FrameNext ==
  \/ FrameSetConfig
  \/ GateRequestBids
  \/ AuctionEnd
  \/ FrameBidResponse

FrameSpec == Init /\ [][FrameNext]_vars

\* getFirstMatchingFloor on its own: a table, a bid request and a media type
\* are drawn, and the function is called on them twice
MatchCodes == { <<"div1">>, <<"Div1">>, <<"a", "*">>, <<"a", "*", "*">> }
MatchMediaTypes == { <<"banner">>, <<"video">>, Undefined }
\* the rules a table is made of; one of them stores the floor 0
MatchRules ==
  << Rule(<<"div1", "|", "banner">>, Num(1000)),
     Rule(<<"div1", "|", "*">>, Num(0)),
     Rule(<<"*", "|", "banner">>, Num(2000)),
     Rule(<<"*", "|", "*">>, Num(2500)),
     Rule(<<"a", "*", "|", "banner">>, Num(3000)),
     Rule(<<"a", "*", "|", "*">>, Num(4000)),
     Rule(<<"a", "*", "*", "|", "banner">>, Num(5000)) >>
MatchDefaults == { None, Some(500) }

\* the table of the rules picked, in the order of MatchRules
MatchTable(picked, default) ==
  Doc(<<"match model">>, <<"USD">>, None, <<"adUnitCode", "mediaType">>, <<"|">>,
      SelectSeq(MatchRules, LAMBDA r : r \in picked), default)

MatchRequest(code) ==
  [bidId |-> <<1, 1>>, bidder |-> "rubicon", adUnitCode |-> code, gptSlot |-> Undefined,
   mediaTypes |-> <<[mediaType |-> <<"banner">>, sizes |-> <<<<"300x200">>>>]>>]

NoInfo == Info(None, Undefined, Undefined)

MatchInit ==
  /\ fetching = FALSE
  /\ addedFloorsHook = FALSE
  /\ _floorsConfig = EmptyConfig
  /\ _delayedAuctions = <<>>
  /\ _floorDataForAuction = [a \in Auctions |-> NoContext]
  /\ hookConfig = [a \in Auctions |-> NoHookConfig]
  /\ timers = [a \in Auctions |-> "none"]
  /\ adUnits = [a \in Auctions |-> <<>>]
  /\ nextCalls = [a \in Auctions |-> 0]
  /\ requests = 0
  /\ registered = [requestBids |-> 0, addBidResponse |-> 0, auctionEnd |-> 0]
  /\ ended = [a \in Auctions |-> FALSE]
  /\ getFloorCalls = 0
  /\ \E picked \in SUBSET {MatchRules[i] : i \in 1..Len(MatchRules)},
        default \in MatchDefaults, code \in MatchCodes, mediaType \in MatchMediaTypes :
        /\ picked # {}
        /\ result = [op |-> "input", calls |-> 0, table |-> MatchTable(picked, default),
                     data |-> MatchTable(picked, default), bidObject |-> MatchRequest(code),
                     mediaType |-> mediaType, size |-> <<"300x250">>,
                     threw |-> FALSE, hit |-> FALSE, info |-> NoInfo]

\* getFirstMatchingFloor(floorData, bidObject, mediaType, size) is called on
\* the table as the call before left it
callGetFirstMatchingFloor ==
  /\ result.calls < MaxMatchCalls
  /\ \E got \in {getFirstMatchingFloor(result.data, result.bidObject,
                                        result.mediaType, result.size)} :
        result' = [result EXCEPT !.op = "match", !.calls = @ + 1, !.data = got.data,
                                 !.threw = got.threw, !.hit = got.hit, !.info = got.info]
  /\ UNCHANGED <<fetching, addedFloorsHook, _floorsConfig, _delayedAuctions,
                 _floorDataForAuction, hookConfig, timers, adUnits, nextCalls,
                 requests, registered, ended, getFloorCalls>>

MatchNext == callGetFirstMatchingFloor

MatchSpec == MatchInit /\ [][MatchNext]_vars

\* isFloorsDataValid on its own: a document is drawn and validated
ValidTypes == { "object", "text" }
\* schema.fields; Undefined stands for fields that are no array
ValidFields ==
  { <<"mediaType">>, <<"adUnitCode", "mediaType">>, <<>>, <<"mediaType", "weather">>,
    Undefined }
ValidDelimiters == { Undefined, <<"|">>, <<"^">> }
ValidRules ==
  << Rule(<<"banner">>, Num(1000)),
     Rule(<<"video">>, NotNum),
     Rule(<<"*">>, Num(2500)),
     Rule(<<"div1", "|", "banner">>, Num(1000)),
     Rule(<<"div1", "^", "banner">>, Num(1000)),
     Rule(<<"div1", "|", "banner", "|", "*">>, Num(1000)),
     Rule(<<"div1", "|", "video">>, NotNum) >>

ValidDoc(type, fields, delimiter, picked) ==
  [Doc(<<"valid model">>, <<"USD">>, None, fields, delimiter,
       SelectSeq(ValidRules, LAMBDA r : r \in picked), None) EXCEPT !.type = type]

ValidInit ==
  /\ fetching = FALSE
  /\ addedFloorsHook = FALSE
  /\ _floorsConfig = EmptyConfig
  /\ _delayedAuctions = <<>>
  /\ _floorDataForAuction = [a \in Auctions |-> NoContext]
  /\ hookConfig = [a \in Auctions |-> NoHookConfig]
  /\ timers = [a \in Auctions |-> "none"]
  /\ adUnits = [a \in Auctions |-> <<>>]
  /\ nextCalls = [a \in Auctions |-> 0]
  /\ requests = 0
  /\ registered = [requestBids |-> 0, addBidResponse |-> 0, auctionEnd |-> 0]
  /\ ended = [a \in Auctions |-> FALSE]
  /\ getFloorCalls = 0
  /\ \E type \in ValidTypes, fields \in ValidFields, delimiter \in ValidDelimiters,
        picked \in SUBSET {ValidRules[i] : i \in 1..Len(ValidRules)} :
        result = [op |-> "input", floorsData |-> ValidDoc(type, fields, delimiter, picked),
                  accepted |-> FALSE, after |-> ValidDoc(type, fields, delimiter, picked)]

\* isFloorsDataValid(floorsData): what it returns and the document after it
callIsFloorsDataValid ==
  /\ result.op = "input"
  /\ result' = [result EXCEPT !.op = "validated",
                              !.accepted = isFloorsDataValid(result.floorsData),
                              !.after = validatedData(result.floorsData)]
  /\ UNCHANGED <<fetching, addedFloorsHook, _floorsConfig, _delayedAuctions,
                 _floorDataForAuction, hookConfig, timers, adUnits, nextCalls,
                 requests, registered, ended, getFloorCalls>>

ValidNext == callIsFloorsDataValid

ValidSpec == ValidInit /\ [][ValidNext]_vars

\* one auction whose table is compiled from setConfig data or merged from the
\* floors of its ad units
negativeFloorData ==
  [basicFloorData EXCEPT !.modelVersion = <<"negative model">>,
                         !.values = <<Rule(<<"banner">>, Num(-1000)), Rule(<<"*">>, Num(2500))>>]
\* floors of an ad unit: its schema names adUnitCode itself
codedFloorData(floor) ==
  Doc(<<"coded model">>, <<"USD">>, None, <<"adUnitCode", "mediaType">>, <<"|">>,
      <<Rule(<<"*", "|", "banner">>, Num(floor))>>, None)
\* floors of an ad unit by media type or by size
bannerFloorData(floor) ==
  Doc(<<"banner model">>, <<"USD">>, None, <<"mediaType">>, <<"|">>,
      <<Rule(<<"banner">>, Num(floor))>>, None)
sizeFloorData ==
  Doc(<<"size model">>, <<"USD">>, None, <<"mediaType", "size">>, <<"|">>,
      <<Rule(<<"banner", "|", "300x250">>, Num(3000))>>, None)
MergeConfigInputs ==
  { postConfig, [basicFloorConfig EXCEPT !.data = negativeFloorData], offConfig }
MergeAdUnitInputs ==
  { <<AdUnit(<<"div1">>, Undefined, bannerFloorData(1000)),
      AdUnit(<<"div2">>, Undefined, bannerFloorData(2000))>>,
    <<AdUnit(<<"Div1">>, Undefined, bannerFloorData(1000)),
      AdUnit(<<"div1">>, Undefined, bannerFloorData(2000))>>,
    <<AdUnit(<<"div1">>, Undefined, codedFloorData(1000)),
      AdUnit(<<"div2">>, Undefined, codedFloorData(2000))>>,
    <<AdUnit(<<"div1">>, Undefined, bannerFloorData(1000)),
      AdUnit(<<"div2">>, Undefined, sizeFloorData)>>,
    <<AdUnit(<<"div1">>, Undefined, bannerFloorData(1000)),
      AdUnit(<<"div2">>, Undefined, NoData)>> }
\* a bid response to the first bidder of the first or of the second ad unit
MergeBidInputs ==
  { [basicBidResponse EXCEPT !.requestId = <<1, 1>>, !.cpm = 1500],
    [basicBidResponse EXCEPT !.requestId = <<2, 1>>, !.cpm = 1500] }

MergeSetConfig == \E config \in MergeConfigInputs : handleSetFloorsConfig(config)
MergeRequestBids == \E units \in MergeAdUnitInputs, random \in Randoms :
                       requestBidsHook("a1", units, random)
MergeBidResponse == \E bid \in MergeBidInputs : bidResponse("a1", bid, TRUE)

MergeNext ==
  \/ MergeSetConfig
  \/ MergeRequestBids
  \/ MergeBidResponse

MergeSpec == Init /\ [][MergeNext]_vars

\* getFloorsDataForAuction on its own, as its tests call it: a document and an
\* ad unit code are drawn and the document is compiled
CompileFields == { <<"mediaType">>, <<"adUnitCode", "mediaType">>, <<"mediaType", "size">> }
CompileDelimiters == { Undefined, <<"|">>, <<"^">> }
CompileCurrencies == { Undefined, <<>>, <<"USD">>, <<"EUR">> }
CompileCodes == { Undefined, <<>>, <<"div1">>, <<"Div1">> }
CompileRules ==
  << Rule(<<"Banner">>, Num(1000)), Rule(<<"video">>, Num(3000)), Rule(<<"*">>, Num(2500)) >>

CompileDoc(fields, delimiter, currency, picked) ==
  Doc(<<"compile model">>, currency, None, fields, delimiter,
      SelectSeq(CompileRules, LAMBDA r : r \in picked), Some(500))

CompileInit ==
  /\ fetching = FALSE
  /\ addedFloorsHook = FALSE
  /\ _floorsConfig = EmptyConfig
  /\ _delayedAuctions = <<>>
  /\ _floorDataForAuction = [a \in Auctions |-> NoContext]
  /\ hookConfig = [a \in Auctions |-> NoHookConfig]
  /\ timers = [a \in Auctions |-> "none"]
  /\ adUnits = [a \in Auctions |-> <<>>]
  /\ nextCalls = [a \in Auctions |-> 0]
  /\ requests = 0
  /\ registered = [requestBids |-> 0, addBidResponse |-> 0, auctionEnd |-> 0]
  /\ ended = [a \in Auctions |-> FALSE]
  /\ getFloorCalls = 0
  /\ \E fields \in CompileFields, delimiter \in CompileDelimiters,
        currency \in CompileCurrencies, code \in CompileCodes,
        picked \in SUBSET {CompileRules[i] : i \in 1..Len(CompileRules)} :
        /\ picked # {}
        /\ result = [op |-> "input", floorData |-> CompileDoc(fields, delimiter, currency, picked),
                     adUnitCode |-> code, after |-> NoData, auctionFloorData |-> NoData]

\* getFloorsDataForAuction(floorData, adUnitCode): auctionFloorData is what it
\* returns, after is floorData once it has returned; the function works on
\* utils.deepClone(floorData) and reads floorData only
callGetFloorsDataForAuction ==
  /\ result.op = "input"
  /\ result' = [result EXCEPT !.op = "compiled",
                              !.after = result.floorData,
                              !.auctionFloorData =
                                 getFloorsDataForAuction(result.floorData, result.adUnitCode)]
  /\ UNCHANGED <<fetching, addedFloorsHook, _floorsConfig, _delayedAuctions,
                 _floorDataForAuction, hookConfig, timers, adUnits, nextCalls,
                 requests, registered, ended, getFloorCalls>>

CompileNext == callGetFloorsDataForAuction

CompileSpec == CompileInit /\ [][CompileNext]_vars

\* one auction under a table by ad unit code and media type, and the floorData
\* its bid responses are forwarded with
codeFloorData ==
  Doc(<<"code model">>, <<"USD">>, None, <<"adUnitCode", "mediaType">>, <<"|">>,
      <<Rule(<<"div1", "|", "banner">>, Num(2000)), Rule(<<"*", "|", "banner">>, Num(1000))>>,
      None)
AnnotateConfigInputs ==
  { [basicFloorConfig EXCEPT !.data = codeFloorData],
    [noEnforceConfig EXCEPT !.data = codeFloorData],
    offConfig }
AnnotateAdUnitInputs ==
  { <<AdUnit(<<"Div1">>, Undefined, NoData)>>,
    <<AdUnit(<<"div2">>, Undefined, NoData)>>,
    <<AdUnit(<<"a", "|", "b">>, Undefined, NoData)>> }
AnnotateBidInputs ==
  { [basicBidResponse EXCEPT !.requestId = <<1, 1>>, !.bidderCode = "rubicon"],
    [basicBidResponse EXCEPT !.cpm = 1500],
    [basicBidResponse EXCEPT !.cpm = 1500, !.currency = <<"EUR">>],
    [basicBidResponse EXCEPT !.cpm = 3000, !.currency = <<"EUR">>,
                             !.originalCpm = 500, !.originalCurrency = <<"USD">>],
    [basicBidResponse EXCEPT !.mediaType = <<"video">>] }

AnnotateSetConfig == \E config \in AnnotateConfigInputs : handleSetFloorsConfig(config)
AnnotateRequestBids == \E units \in AnnotateAdUnitInputs, random \in Randoms :
                          requestBidsHook("a1", units, random)
AnnotateBidResponse == \E bid \in AnnotateBidInputs, canConvert \in BOOLEAN :
                          bidResponse("a1", bid, canConvert)

AnnotateNext ==
  \/ AnnotateSetConfig
  \/ AnnotateRequestBids
  \/ AnnotateBidResponse

AnnotateSpec == Init /\ [][AnnotateNext]_vars

\* one auction and the floors its bid requests are quoted by getFloor; the
\* floors of the table have a fifth decimal place
quoteFloorData ==
  Doc(<<"quote model">>, <<"USD">>, None, <<"mediaType">>, <<"|">>,
      <<Rule(<<"banner">>, Num(1776)), Rule(<<"video">>, Num(1112)),
        Rule(<<"*">>, Num(1000))>>, None)
QuoteConfigInputs ==
  { [basicFloorConfig EXCEPT !.data = quoteFloorData],
    [basicFloorConfig EXCEPT !.data = quoteFloorData,
                             !.enforcement = [basicEnforcement EXCEPT !.bidAdjustment = "false"]] }
QuoteAdUnitInputs == { <<AdUnit(<<"div1">>, Undefined, NoData)>> }
QuoteParamInputs ==
  { [mediaType |-> Star, size |-> Star, currency |-> <<"USD">>],
    [mediaType |-> <<"video">>, size |-> Star, currency |-> Undefined],
    [mediaType |-> Star, size |-> Star, currency |-> <<"EUR">>] }

QuoteSetConfig == \E config \in QuoteConfigInputs : handleSetFloorsConfig(config)
QuoteRequestBids == \E units \in QuoteAdUnitInputs, random \in Randoms :
                       requestBidsHook("a1", units, random)
QuoteGetFloor == \E k \in 1..2, requestParams \in QuoteParamInputs, canConvert \in BOOLEAN :
                    callGetFloor("a1", k, requestParams, canConvert)

QuoteNext ==
  \/ QuoteSetConfig
  \/ QuoteRequestBids
  \/ QuoteGetFloor

QuoteSpec == Init /\ [][QuoteNext]_vars

\* auctions under configs with an auction delay whose endpoint is to be
\* fetched with GET or with POST
postDelayConfig ==
  [delayConfig EXCEPT !.endpoint = [url |-> TRUE, method |-> "POST"]]
MethodConfigInputs == { delayConfig, postDelayConfig, offConfig }

MethodSetConfig == \E config \in MethodConfigInputs : handleSetFloorsConfig(config)

MethodNext ==
  \/ MethodSetConfig
  \/ RequestBids
  \/ TimerFires
  \/ FetchResponse
  \/ FetchError

MethodSpec == Init /\ [][MethodNext]_vars

\* one auction under configs that supply some enforcement flags or none
\* utils.pick reads every property of an enforcement that is not supplied as
\* undefined, as it does the properties missing from one that is
omittedEnforcement == NoEnforcement
PolicyConfigInputs ==
  { [basicFloorConfig EXCEPT !.enforcement = omittedEnforcement],
    dealsConfig,
    [basicFloorConfig EXCEPT !.enforcement = [NoEnforcement EXCEPT !.enforceJS = "false"]],
    [basicFloorConfig EXCEPT !.enforcement = [NoEnforcement EXCEPT !.bidAdjustment = "false",
                                                                   !.enforcePBS = "true"]] }
PolicyBidInputs ==
  { basicBidResponse,
    [basicBidResponse EXCEPT !.cpm = 1000],
    [basicBidResponse EXCEPT !.dealId = TRUE],
    [basicBidResponse EXCEPT !.requestId = <<1, 1>>, !.bidderCode = "rubicon", !.cpm = 1500] }

PolicySetConfig == \E config \in PolicyConfigInputs : handleSetFloorsConfig(config)
PolicyGetFloor == \E k \in 1..2 : callGetFloor("a1", k, CHOOSE p \in PairParamInputs : TRUE, TRUE)
PolicyBidResponse == \E bid \in PolicyBidInputs : bidResponse("a1", bid, TRUE)

PolicyNext ==
  \/ PolicySetConfig
  \/ QuoteRequestBids
  \/ PolicyGetFloor
  \/ PolicyBidResponse

PolicySpec == Init /\ [][PolicyNext]_vars

\* one auction whose bidders ask getFloor and then answer with a bid
HonourConfigInputs ==
  { basicFloorConfig,
    [basicFloorConfig EXCEPT !.enforcement = [basicEnforcement EXCEPT !.bidAdjustment = "false"]] }
HonourBidInputs ==
  { [basicBidResponse EXCEPT !.cpm = 1000],
    [basicBidResponse EXCEPT !.requestId = <<1, 1>>, !.bidderCode = "rubicon", !.cpm = 1000],
    [basicBidResponse EXCEPT !.requestId = <<1, 1>>, !.bidderCode = "rubicon", !.cpm = 2000],
    [basicBidResponse EXCEPT !.requestId = <<1, 1>>, !.bidderCode = "rubicon", !.cpm = 4000] }

HonourSetConfig == \E config \in HonourConfigInputs : handleSetFloorsConfig(config)
HonourBidResponse == \E bid \in HonourBidInputs : bidResponse("a1", bid, TRUE)

HonourNext ==
  \/ HonourSetConfig
  \/ QuoteRequestBids
  \/ PolicyGetFloor
  \/ HonourBidResponse

HonourSpec == Init /\ [][HonourNext]_vars

\* ------------------------------------------------------------------ claims
Queued(a) == \E i \in 1..Len(_delayedAuctions) : _delayedAuctions[i] = a
\* requestBidsHook delayed the auction
Delayed(a) == hookConfig[a].timer # "null"
\* bid.floorData of every bid of the auction's ad units
BidsOf(a) == {<<i, j>> : i \in 1..Len(adUnits[a]), j \in 1..2}
BidAt(units, ij) == units[ij[1]].bids[ij[2]]
\* a fetch callback (success or error) runs in this step
FetchCompletes == requests' < requests

\* C1: an auction that requestBidsHook delayed has its next function called
\* exactly once: not before its timer or the fetch callback, never twice, and
\* once as soon as either of them has run, in whichever order they come.
C1_DelayedContinuesOnce ==
  \A a \in Auctions :
    Delayed(a) =>
      /\ nextCalls[a] <= 1
      /\ (timers[a] = "pending") => (nextCalls[a] = 0 /\ Queued(a))
      /\ (timers[a] \in {"fired", "cleared"}) => nextCalls[a] = 1

\* the timer fired first and the fetch callback ran after it
C1_Witness ==
  \E a \in Auctions : timers[a] = "fired" /\ ~fetching /\ requests = 0 /\ nextCalls[a] = 1

\* C2: every auction that enters requestBidsHook has its next function called
\* in the end, whatever the fetch does, provided its delay timer fires.
C2_AuctionContinues ==
  \A a \in Auctions : hookConfig[a].made ~> (nextCalls[a] >= 1)

\* the timer continued an auction whose fetch is still not answered
C2_Witness ==
  \E a \in Auctions : timers[a] = "fired" /\ fetching /\ nextCalls[a] = 1

\* C3: addBidResponseHook calls the next hook exactly once for every bid
\* response it is given, and never ends without calling it.
C3_HookForwardsOnce ==
  result.op = "addBidResponse" => (~result.threw /\ result.calls = 1)

\* an enforcement flag of the auction's policy, with its default when it is unset
PolicyFlag(value, default) == IF value = "undefined" THEN default ELSE value = "true"

\* C4: when the hook resolved a floor f and obtained the comparison cpm c of a
\* bid response, it forwards a rejected replacement (cpm 0, status rejected)
\* exactly when enforceJS is true and c < f and (floorDeals is true or the bid
\* has no deal id); otherwise it forwards the bid with its cpm, also when c = f.
C4_RejectCondition ==
  (result.op = "addBidResponse" /\ result.calls = 1 /\ result.forwarded.floorData.present) =>
     LET f == result.forwarded.floorData.floorValue[1]
         c == result.forwarded.floorData.cpmAfterAdjustments
         policy == result.before.enforcement
         reject == /\ PolicyFlag(policy.enforceJS, TRUE)
                   /\ c < f
                   /\ (PolicyFlag(policy.floorDeals, FALSE) \/ ~result.bid.dealId)
     IN /\ result.forwarded.rejected <=> reject
        /\ result.forwarded.rejected =>
              (result.forwarded.cpm = 0 /\ result.forwarded.status = "bidRejected")
        /\ ~result.forwarded.rejected =>
              (result.forwarded.cpm = result.bid.cpm /\ result.forwarded.status = result.bid.status)

\* a bid whose cpm equals its floor went through under enforcement
C4_Witness ==
  /\ result.op = "addBidResponse"
  /\ result.forwarded.floorData.present
  /\ result.before.enforcement.enforceJS = "true"
  /\ result.forwarded.floorData.floorValue = Some(result.forwarded.floorData.cpmAfterAdjustments)
  /\ ~result.forwarded.rejected
  /\ result.forwarded.cpm = result.bid.cpm

\* C5: at most one floors request is outstanding, and the flag says so.
C5_SingleFlight ==
  /\ requests <= 1
  /\ fetching <=> requests = 1

\* a request is outstanding after an earlier one was answered and let an auction go
C5_Witness == requests = 1 /\ fetching /\ \E a \in Auctions : timers[a] = "cleared"

\* C6: when a fetch answers with valid data while an auction is queued, that
\* auction is continued in the same step with the fetched table, its bids tagged
\* 'fetch' with the fetched modelVersion, and its timer is cleared.
C6_FetchBeforeTimer ==
  [][\A fetchResponse \in FetchResponses :
       (FetchCompletes /\ isFloorsDataValid(fetchResponse)
          /\ _floorsConfig'.data = parseFloorData(fetchResponse, <<"fetch">>))
       => \A a \in Auctions :
            Queued(a) =>
              /\ nextCalls'[a] = nextCalls[a] + 1
              /\ timers'[a] = "cleared"
              /\ _floorDataForAuction'[a].exists
              /\ _floorDataForAuction'[a].data =
                   getFloorsDataForAuction(parseFloorData(fetchResponse, <<"fetch">>), Undefined)
              /\ \A ij \in BidsOf(a) :
                   /\ BidAt(adUnits'[a], ij).floorData.location = <<"fetch">>
                   /\ BidAt(adUnits'[a], ij).floorData.modelVersion = fetchResponse.modelVersion]_vars

\* an auction continued by the fetch, with the fetched table on its bids
C6_Witness ==
  \E a \in Auctions :
    /\ timers[a] = "cleared"
    /\ nextCalls[a] = 1
    /\ BidAt(adUnits[a], <<1, 1>>).floorData.location = <<"fetch">>
    /\ BidAt(adUnits[a], <<1, 1>>).floorData.modelVersion = <<"fetch model name">>

\* C7: a fetch callback releases the flag, continues every queued auction once
\* with its timer cleared and leaves the queue empty and no timer pending; the
\* error callback continues them with the table that is active.
C7_FetchReleasesQueue ==
  [][FetchCompletes =>
       /\ ~fetching'
       /\ _delayedAuctions' = <<>>
       /\ \A a \in Auctions :
            /\ timers'[a] # "pending"
            /\ Queued(a) => (nextCalls'[a] = nextCalls[a] + 1 /\ timers'[a] = "cleared")
            /\ (Queued(a) /\ _floorsConfig' = _floorsConfig) =>
                  \E random \in Randoms :
                     _floorDataForAuction'[a] =
                        createFloorsDataForAuction(adUnits[a], _floorsConfig, random).context]_vars

\* two auctions were queued and the callback continued both
C7_Witness ==
  /\ ~fetching
  /\ _delayedAuctions = <<>>
  /\ \A a \in Auctions : timers[a] = "cleared" /\ nextCalls[a] = 1

\* C8: a timer that expires while the fetch is outstanding continues its auction
\* there and then with the table active at that moment and takes it off the
\* queue; a later fetch callback does not continue it again and leaves its
\* context and its bids' floorData as they are.
C8_TimerBeforeFetch ==
  [][\A a \in Auctions :
       /\ (timers[a] = "pending" /\ timers'[a] = "fired") =>
             /\ nextCalls'[a] = nextCalls[a] + 1
             /\ ~Queued(a)'
             /\ \E random \in Randoms :
                  LET created == createFloorsDataForAuction(adUnits[a], _floorsConfig, random)
                  IN _floorDataForAuction'[a] = created.context /\ adUnits'[a] = created.adUnits
       /\ (timers[a] = "fired" /\ FetchCompletes) =>
             /\ nextCalls'[a] = nextCalls[a]
             /\ adUnits'[a] = adUnits[a]
             /\ _floorDataForAuction'[a] = _floorDataForAuction[a]]_vars

\* continued by its timer with the setConfig table, which the fetch replaced later
C8_Witness ==
  \E a \in Auctions :
    /\ timers[a] = "fired"
    /\ nextCalls[a] = 1
    /\ BidAt(adUnits[a], <<1, 1>>).floorData.location = <<"setConfig">>
    /\ _floorDataForAuction[a].data.location = <<"setConfig">>
    /\ _floorsConfig.data.location = <<"fetch">>

\* the step is a getFloor call, a bid response or the end of auction a itself
OwnStep(a) ==
  \/ ended'[a] # ended[a]
  \/ result' # result /\ result'.auction = a

Disables == \E config \in PairConfigInputs : config.enabled = "false" /\ handleSetFloorsConfig(config)

C10_SkippedAuction ==
  /\ \A a \in Auctions :
       LET context == _floorDataForAuction[a]
       IN context.exists =>
            /\ context.data.skipRate = Some(100) => context.skipped
            /\ context.data.skipRate \in {None, Some(0)} => ~context.skipped
            /\ context.skipped =>
                 \A ij \in BidsOf(a) :
                    /\ BidAt(adUnits[a], ij).floorData.present
                    /\ BidAt(adUnits[a], ij).floorData.skipped
                    /\ ~BidAt(adUnits[a], ij).getFloor
  /\ (result.op = "getFloor" /\ result.before.exists /\ result.before.skipped) =>
        (~result.threw /\ result.floor.isEmpty)
  /\ (result.op = "addBidResponse" /\ result.before.exists /\ result.before.skipped) =>
        /\ result.calls = 1
        /\ ~result.forwarded.rejected
        /\ result.forwarded.cpm = result.bid.cpm
        /\ result.forwarded.status = result.bid.status
        /\ ~result.forwarded.floorData.present

\* a bid below the floor of its banner rule went through a sampled-out auction
C10_Witness ==
  /\ result.op = "addBidResponse"
  /\ result.before.exists
  /\ result.before.skipped
  /\ result.before.data.skipRate = Some(50)
  /\ result.bid.requestId = <<1, 2>>
  /\ result.forwarded.cpm = 500

\* continueAuction runs for auction a in this step
Continues(a) == hookConfig'[a].hasExited /\ ~hookConfig[a].hasExited
\* the global rule table continueAuction finds in this step: a fetch callback
\* stores its data before it resumes the auctions
TableInUse == IF FetchCompletes THEN _floorsConfig'.data ELSE _floorsConfig.data
\* some ad unit of the auction carries valid floors data
SomeAdUnitFloors(units) == \E i \in 1..Len(units) : isFloorsDataValid(units[i].floors)
\* the first ad unit with valid floors data
FirstAdUnitFloors(units) ==
  units[CHOOSE i \in 1..Len(units) :
          /\ isFloorsDataValid(units[i].floors)
          /\ \A j \in 1..(i - 1) : ~isFloorsDataValid(units[j].floors)].floors

\* C11: an auction that is continued while the global table has no rule and no
\* ad unit of it has valid floors data gets its next call, but no context, and
\* none of its bids gets getFloor or floorData.
C11_InertWithoutRules ==
  [][\A a \in Auctions :
       Continues(a) =>
         /\ nextCalls'[a] = nextCalls[a] + 1
         /\ (Len(TableInUse.values) = 0 /\ ~SomeAdUnitFloors(adUnits'[a])) =>
               /\ ~_floorDataForAuction'[a].exists
               /\ \A ij \in BidsOf(a)' :
                    /\ ~BidAt(adUnits'[a], ij).getFloor
                    /\ ~BidAt(adUnits'[a], ij).floorData.present]_vars

\* an auction went on without a context while the module was on with no table,
\* its only ad unit carrying floors data that is not valid
C11_Witness ==
  /\ nextCalls["a1"] = 1
  /\ ~_floorDataForAuction["a1"].exists
  /\ addedFloorsHook
  /\ Len(_floorsConfig.data.values) = 0
  /\ Len(adUnits["a1"]) = 1
  /\ adUnits["a1"][1].floors.type = "object"
  /\ ~BidAt(adUnits["a1"], <<1, 1>>).floorData.present

\* C12: an auction that is continued takes its table from the global table when
\* that has a rule, leaving the ad units' floors aside, and from the ad units'
\* floors data otherwise; every bid's floorData.location is the location of the
\* table taken: 'setConfig' or 'fetch' for the global one, 'adUnit' else.
C12_TableSource ==
  [][\A a \in Auctions :
       Continues(a) =>
         LET context == _floorDataForAuction'[a]
         IN /\ Len(TableInUse.values) > 0 =>
                 /\ context.exists
                 /\ TableInUse.location \in {<<"setConfig">>, <<"fetch">>}
                 /\ context.data.location = TableInUse.location
                 /\ context.data.modelVersion = TableInUse.modelVersion
                 /\ context.data.values = TableInUse.values
                 /\ \A ij \in BidsOf(a)' :
                      BidAt(adUnits'[a], ij).floorData.location = TableInUse.location
            /\ (Len(TableInUse.values) = 0 /\ SomeAdUnitFloors(adUnits'[a])) =>
                 /\ context.exists
                 /\ context.data.location = <<"adUnit">>
                 /\ context.data.modelVersion = FirstAdUnitFloors(adUnits'[a]).modelVersion
                 /\ \A ij \in BidsOf(a)' :
                      BidAt(adUnits'[a], ij).floorData.location = <<"adUnit">>]_vars

\* an auction whose ad unit has floors of its own runs on the fetched table
C12_Witness ==
  /\ _floorDataForAuction["a1"].exists
  /\ _floorDataForAuction["a1"].data.location = <<"fetch">>
  /\ SomeAdUnitFloors(adUnits["a1"])
  /\ BidAt(adUnits["a1"], <<1, 1>>).floorData.location = <<"fetch">>

\* what parseFloorData refuses: no object, or not valid floors data
Refused(floorsData) == ~(floorsData.type = "object" /\ isFloorsDataValid(floorsData))

C13_EndedAuctionHasNoContext ==
  [][\A a \in Auctions :
       /\ ended'[a] => ~_floorDataForAuction'[a].exists
       /\ auctionEnd(a) =>
            \A b \in Auctions \ {a} : _floorDataForAuction'[b] = _floorDataForAuction[b]
       /\ \A requestParams \in PairParamInputs :
            (ended[a] /\ callGetFloor(a, 1, requestParams, TRUE)) =>
               /\ ~result'.threw
               /\ result'.floor = NoFloor
       /\ \A bid \in PairBidInputs :
            (ended[a] /\ bidResponse(a, bid, TRUE)) =>
               /\ ~result'.threw
               /\ result'.calls = 1
               /\ result'.forwarded = Forward(bid, FALSE, NoResponseFloorData)]_vars

\* a bid response below its floor came through after the end of its auction,
\* the other auction keeping its context
C13_Witness ==
  /\ ended["a1"]
  /\ ~ended["a2"]
  /\ _floorDataForAuction["a2"].exists
  /\ result.op = "addBidResponse"
  /\ result.auction = "a1"
  /\ ~result.before.exists
  /\ result.calls = 1
  /\ result.bid.cpm < 1000

\* the rule key matches the bid: every segment is '*' or the bid's value of
\* the field of its place
KeyMatches(data, key, request, bid) ==
  LET parts == Split(key, DelimiterOf(data))
      mediaType == IF bid.mediaType = Undefined THEN <<"banner">> ELSE bid.mediaType
      size == IF bid.size = Undefined THEN Star ELSE bid.size
  IN /\ Len(parts) = Len(data.fields)
     /\ \A i \in 1..Len(parts) :
          LET value == exactMatchOf(data.fields[i], request, mediaType, size)
          IN parts[i] = Star \/ (value # Undefined /\ parts[i] = toLowerCase(value))

\* neither a rule of the table nor a default gives the bid a floor
NoFloorFor(data, request, bid) ==
  /\ data.default = None
  /\ \A i \in 1..Len(data.values) : ~KeyMatches(data, data.values[i].key, request, bid)

\* the hook has nothing to enforce for the bid: no context, a skipped auction,
\* no bid request of the response's requestId, or no floor for it
NothingToEnforce(a, bid) ==
  LET context == _floorDataForAuction[a]
      bids == BidRequests(adUnits[a], 1)
  IN \/ ~context.exists
     \/ context.skipped
     \/ ~HasMatchingBidRequest(bids, bid)
     \/ NoFloorFor(context.data, MatchingBidRequest(bids, bid), bid)

\* C14: addBidResponseHook forwards the bid response as it came, with no
\* floorData and its cpm and status unchanged, whenever the auction has no
\* context, was skipped, has no bid request with the response's requestId, or
\* neither a rule nor a default gives the bid a floor.
C14_PassThrough ==
  [][\A bid \in FrameBidInputs :
       (NothingToEnforce("a1", bid) /\ bidResponse("a1", bid, TRUE)) =>
          /\ result'.calls = 1
          /\ ~result'.forwarded.rejected
          /\ result'.forwarded.cpm = bid.cpm
          /\ result'.forwarded.status = bid.status
          /\ ~result'.forwarded.floorData.present]_vars

\* the media type and size of the call in result, as KeyMatches reads them
CallOf(r) == [mediaType |-> r.mediaType, size |-> r.size]

\* the candidate keys present in the table: the rules whose key matches the
\* call, field by field, with the value of the bid request or a wildcard
PresentCandidates(r) ==
  {r.table.values[i].key : i \in {j \in 1..Len(r.table.values) :
      KeyMatches(r.table, r.table.values[j].key, r.bidObject, CallOf(r))}}

\* the number of wildcard segments of a rule key
Wildcards(data, key) ==
  LET parts == Split(key, DelimiterOf(data))
  IN Cardinality({i \in 1..Len(parts) : parts[i] = Star})

\* of two keys with as many wildcards, the first is exact further to the left
ExactLeftOf(data, key, other) ==
  LET parts == Split(key, DelimiterOf(data))
      others == Split(other, DelimiterOf(data))
  IN \E i \in 1..Len(parts) :
       /\ parts[i] # Star
       /\ others[i] = Star
       /\ \A j \in 1..(i - 1) : (parts[j] = Star) <=> (others[j] = Star)

\* the key of no wildcard: the lower-cased values of the call, joined
ExactKey(r) ==
  LET mediaType == IF r.mediaType = Undefined THEN <<"banner">> ELSE r.mediaType
  IN Join([i \in 1..Len(r.table.fields) |->
             toLowerCase(exactMatchOf(r.table.fields[i], r.bidObject, mediaType, r.size))],
          DelimiterOf(r.table))

\* C15: the rule getFirstMatchingFloor returns is, among the candidate keys
\* present in the table, one of the fewest wildcards, and among those of as
\* many wildcards the one whose exact fields are left-most in the schema.
C15_MostSpecificRule ==
  (result.op = "match" /\ PresentCandidates(result) # {}) =>
     /\ result.info.matchingRule \in PresentCandidates(result)
     /\ \A other \in PresentCandidates(result) \ {result.info.matchingRule} :
          \/ Wildcards(result.table, result.info.matchingRule) < Wildcards(result.table, other)
          \/ /\ Wildcards(result.table, result.info.matchingRule) = Wildcards(result.table, other)
             /\ ExactLeftOf(result.table, result.info.matchingRule, other)

\* C16: when some candidate key is present, matchingFloor is the floor stored
\* under the rule returned, the first present candidate, whatever that floor
\* is, 0 too; the default is returned only when no candidate is present.
C16_FloorOfTheRule ==
  result.op = "match" =>
     IF PresentCandidates(result) # {}
     THEN /\ result.info.matchingRule \in PresentCandidates(result)
          /\ result.info.matchingFloor = Lookup(result.table.values, result.info.matchingRule)
     ELSE result.info.matchingFloor = result.table.default

\* C17: when no candidate key is present getFirstMatchingFloor returns the
\* default of the table, undefined when it has none, and no matchingRule; in
\* every case matchingData is the exact key of the call's field values.
C17_DefaultAndMatchingData ==
  result.op = "match" =>
     /\ PresentCandidates(result) = {} =>
           /\ result.info.matchingFloor = result.table.default
           /\ result.info.matchingRule = Undefined
     /\ result.info.matchingData = ExactKey(result)
\* C18: getFloor called again for the same bid with the same media type, size
\* and currency returns the floor and currency it returned before, a bidder
\* CPM adjustment being in force or not: a memoized resolution gives what a
\* fresh one gave.  Every getFloor call of an auction is here made by its
\* first bid with the default parameters, and the auction's table, once
\* made, is not replaced; two calls in a row are compared.
C18_GetFloorRepeats ==
  [][(/\ result.op = "getFloor"
      /\ result'.op = "getFloor"
      /\ getFloorCalls' = getFloorCalls + 1
      /\ result'.auction = result.auction
      /\ result.before.exists
      /\ result'.before.exists) => result'.floor = result.floor]_vars

\* the field names a schema may use
AllowedNames == {"gptSlot", "adUnitCode", "size", "domain", "mediaType"}

\* the segments of a key: one more than the delimiters in it
Segments(key, delimiter) ==
  Cardinality({i \in 1..Len(key) : <<key[i]>> = delimiter}) + 1

\* the rule has a key of as many segments as the schema has fields, and a
\* floor that is a number
Passes(rule, floorsData) ==
  /\ Segments(rule.key, DelimiterOf(floorsData)) = Len(floorsData.fields)
  /\ rule.floor.t = "number"

\* C20: isFloorsDataValid accepts a document exactly when its schema.fields is
\* a non-empty array of allowed field names and at least one rule has a key
\* of exactly fields.length delimiter-separated segments and a numeric floor;
\* an accepted document is left with every such rule and no other.
C20_ValidationFilter ==
  result.op = "validated" =>
     /\ result.accepted <=>
           /\ result.floorsData.type = "object"
           /\ Len(result.floorsData.fields) > 0
           /\ \A i \in 1..Len(result.floorsData.fields) :
                 result.floorsData.fields[i] \in AllowedNames
           /\ \E i \in 1..Len(result.floorsData.values) :
                 Passes(result.floorsData.values[i], result.floorsData)
     /\ result.accepted =>
           result.after.values =
             SelectSeq(result.floorsData.values, LAMBDA r : Passes(r, result.floorsData))

\* a document was accepted and lost the rules of a wrong segment count and of
\* a floor that is no number
C20_Witness ==
  /\ result.op = "validated"
  /\ result.accepted
  /\ Len(result.after.values) = 1
  /\ Len(result.floorsData.values) = 7
  /\ result.floorsData.delimiter = <<"^">>
\* C21: every rule of the table of every auction context has a key of as many
\* delimiter-separated segments as the schema has fields, and a floor that is
\* a number and not negative.
C21_RulesWellFormed ==
  \A a \in Auctions :
     _floorDataForAuction[a].exists =>
        \A i \in 1..Len(_floorDataForAuction[a].data.values) :
           LET rule == _floorDataForAuction[a].data.values[i]
           IN /\ Segments(rule.key, _floorDataForAuction[a].data.delimiter)
                   = Len(_floorDataForAuction[a].data.fields)
              /\ rule.floor.t = "number"
              /\ rule.floor.n >= 0
\* the keys an ad unit's rules are stored under in the auction's table
KeysOfAdUnit(adUnit) ==
  LET rules == getFloorsDataForAuction(adUnit.floors, adUnit.code).values
  IN {rules[i].key : i \in 1..Len(rules)}

\* C23: in a table merged from the floors of ad units of different codes no
\* two ad units have a rule under the same key, so that every rule of every
\* ad unit is in the table with its own floor.
C23_NoCollision ==
  \A a \in Auctions :
     (_floorDataForAuction[a].exists /\ _floorDataForAuction[a].data.location = <<"adUnit">>) =>
        \A i, j \in 1..Len(adUnits[a]) :
           (/\ i # j
            /\ adUnits[a][i].code # adUnits[a][j].code
            /\ isFloorsDataValid(adUnits[a][i].floors)
            /\ isFloorsDataValid(adUnits[a][j].floors)) =>
               /\ KeysOfAdUnit(adUnits[a][i]) \cap KeysOfAdUnit(adUnits[a][j]) = {}
               /\ \A key \in KeysOfAdUnit(adUnits[a][i]) :
                    Lookup(_floorDataForAuction[a].data.values, key)
                      = Lookup(getFloorsDataForAuction(adUnits[a][i].floors,
                                                       adUnits[a][i].code).values, key)

\* the keys of a table, and the keys it should have: each key of the document
\* behind the prefix, in lower case
KeySet(values) == {values[i].key : i \in 1..Len(values)}
PrefixedKeys(values, prefix) == {toLowerCase(prefix \o values[i].key) : i \in 1..Len(values)}

RequestOf(r) == MatchingBidRequest(BidRequests(adUnits[r.auction], 1), r.bid)

\* the floor resolved for the response in result, in the context it found
ResolutionOf(r) ==
  getFirstMatchingFloor(r.before.data, RequestOf(r), r.bid.mediaType, r.bid.size).info

\* the hook resolved a floor for the response in result
FloorResolved(r) ==
  /\ r.op = "addBidResponse"
  /\ ~r.threw
  /\ r.before.exists
  /\ ~r.before.skipped
  /\ HasMatchingBidRequest(BidRequests(adUnits[r.auction], 1), r.bid)
  /\ Truthy(ResolutionOf(r).matchingFloor)

\* the cpm of the response in result, in the currency of the floor, is told
\* by the forwarded bid when it carries floorData; a bid of another currency
\* gets one only through a conversion
SameCurrency(r) ==
  toUpperCase(r.before.data.currency)
    = toUpperCase(IF r.bid.currency = Undefined THEN <<"USD">> ELSE r.bid.currency)

\* the value of the field for the bid, as rule keys spell it
ExactValue(field, r) ==
  toLowerCase(exactMatchOf(field, RequestOf(r),
                           IF r.bid.mediaType = Undefined THEN <<"banner">> ELSE r.bid.mediaType,
                           IF r.bid.size = Undefined THEN Star ELSE r.bid.size))

\* C24: when a floor is resolved for a bid response and the cpm to compare
\* is at hand (the bid is in the floor's currency), the bid forwarded, as it
\* came or rejected, carries floorData with the floor resolved, the rule
\* matched, the floor's currency, the cpm after the bidder's adjustment, the
\* enforcement flags of the auction, and for every schema field the exact
\* value matched on.
C24_FloorDataOnBid ==
  (FloorResolved(result) /\ SameCurrency(result)) =>
     /\ result.calls = 1
     /\ result.forwarded.floorData.present
     /\ result.forwarded.floorData.floorValue = ResolutionOf(result).matchingFloor
     /\ result.forwarded.floorData.floorRule = ResolutionOf(result).matchingRule
     /\ result.forwarded.floorData.floorCurrency = result.before.data.currency
     /\ result.forwarded.floorData.cpmAfterAdjustments
          = getBiddersCpmAdjustment(result.bid.bidderCode, result.bid.cpm)
     /\ result.forwarded.floorData.enforcements = result.before.enforcement
     /\ result.forwarded.floorData.matchedFields =
          [i \in 1..Len(result.before.data.fields) |->
             [field |-> result.before.data.fields[i],
              value |-> ExactValue(result.before.data.fields[i], result)]]
\* 0.0001 of a currency unit
Tick == Unit \div 10000

\* the currency getFloor is asked for
WantedCurrency(floorData, requestParams) ==
  IF requestParams.currency = Undefined THEN floorData.data.currency ELSE requestParams.currency

\* the floor getFloor has in hand before it rounds: the floor resolved,
\* converted when another currency is asked for and can be had, and adjusted
\* for the bidder when the auction asks for that
UnroundedFloor(floorData, bid, requestParams, canConvert) ==
  LET mediaType == floorMediaType(bid, requestParams)
      resolved == getFirstMatchingFloor(floorData.data, bid, mediaType,
                                        floorSize(bid, requestParams, mediaType)).info.matchingFloor[1]
      wanted == WantedCurrency(floorData, requestParams)
      converted == IF wanted # floorData.data.currency /\ canConvert
                   THEN convertCurrency(resolved, floorData.data.currency, wanted)
                   ELSE resolved
  IN IF floorData.enforcement.bidAdjustment = "true"
     THEN calculateAdjustedFloor(converted, getBiddersCpmAdjustment(bid.bidder, converted))
     ELSE converted

\* C25: the floor getFloor returns is a multiple of 0.0001, is not below the
\* unrounded floor and is above it by less than 0.0001.
C25_RoundedUp ==
  [][\A k \in 1..2, requestParams \in QuoteParamInputs, canConvert \in BOOLEAN :
       (callGetFloor("a1", k, requestParams, canConvert) /\ ~result'.floor.isEmpty) =>
          LET unrounded == UnroundedFloor(_floorDataForAuction["a1"],
                                          BidRequests(adUnits["a1"], 1)[k],
                                          requestParams, canConvert)
          IN /\ result'.floor.floor % Tick = 0
             /\ result'.floor.floor >= unrounded
             /\ result'.floor.floor - unrounded < Tick]_vars

\* a floor of 0.01112 in the table has been quoted as 0.0112
C25_Witness ==
  /\ result.op = "getFloor"
  /\ result.before.exists
  /\ result.before.enforcement.bidAdjustment = "false"
  /\ result.before.data.matchingInputs # <<>>
  /\ result.floor = [isEmpty |-> FALSE, floor |-> 1120, currency |-> <<"USD">>]
\* the floor the table of the auction has for the request, whatever is
\* remembered of earlier resolutions
TableFloor(floorData, bid, requestParams) ==
  LET mediaType == floorMediaType(bid, requestParams)
  IN getFirstMatchingFloor([floorData.data EXCEPT !.matchingInputs = <<>>], bid, mediaType,
                           floorSize(bid, requestParams, mediaType)).info.matchingFloor[1]

\* the value v with adjustment(v) = floor for the bidder's adjustment
\* function, cpm * k; the floor itself when the bidder has none
BeforeAdjustment(bidderName, floor) ==
  IF bidCpmAdjustment(bidderName) = <<>> THEN floor
  ELSE (floor * bidCpmAdjustment(bidderName)[2]) \div bidCpmAdjustment(bidderName)[1]

\* getFloor returns v rounded up at 4 decimal places
RoundedFrom(floor, v) ==
  /\ ~floor.isEmpty
  /\ floor.floor % Tick = 0
  /\ floor.floor >= v
  /\ floor.floor - v < Tick

\* C26: bidAdjustment being on, getFloor in the table's currency returns for
\* a bidder with the adjustment cpm * k the table floor / k (rounded up), and
\* for a bidder without an adjustment function the table floor (rounded up).
C26_AdjustedFloor ==
  [][\A k \in 1..2, requestParams \in QuoteParamInputs :
       (/\ callGetFloor("a1", k, requestParams, TRUE)
        /\ _floorDataForAuction["a1"].exists
        /\ _floorDataForAuction["a1"].enforcement.bidAdjustment = "true"
        /\ WantedCurrency(_floorDataForAuction["a1"], requestParams)
              = _floorDataForAuction["a1"].data.currency) =>
          RoundedFrom(result'.floor,
                      BeforeAdjustment(BidRequests(adUnits["a1"], 1)[k].bidder,
                                       TableFloor(_floorDataForAuction["a1"],
                                                  BidRequests(adUnits["a1"], 1)[k],
                                                  requestParams)))]_vars
\* C27: getFloor asked for a currency that is not the table's, the conversion
\* throwing, returns to its caller, without an error, the floor it returns
\* when asked for the table's currency, under the table's currency.
C27_UnconvertedFloor ==
  [][\A k \in 1..2, requestParams \in QuoteParamInputs :
       (/\ callGetFloor("a1", k, requestParams, FALSE)
        /\ _floorDataForAuction["a1"].exists
        /\ WantedCurrency(_floorDataForAuction["a1"], requestParams)
              # _floorDataForAuction["a1"].data.currency) =>
          /\ ~result'.threw
          /\ result'.floor.currency = _floorDataForAuction["a1"].data.currency
          /\ RoundedFrom(result'.floor,
                         UnroundedFloor(_floorDataForAuction["a1"],
                                        BidRequests(adUnits["a1"], 1)[k],
                                        [requestParams EXCEPT
                                           !.currency = _floorDataForAuction["a1"].data.currency],
                                        TRUE))]_vars

\* a floor asked for in EUR, the conversion throwing, has come back in USD
C27_Witness ==
  /\ result.op = "getFloor"
  /\ result.before.exists
  /\ result.requestParams.currency = <<"EUR">>
  /\ ~result.canConvert
  /\ ~result.threw
  /\ result.floor = [isEmpty |-> FALSE, floor |-> 1780, currency |-> <<"USD">>]
\* the currency the bid had before a conversion is the floor's
OriginalMatches(r) ==
  /\ r.bid.originalCurrency # Undefined
  /\ toUpperCase(r.before.data.currency) = toUpperCase(r.bid.originalCurrency)

\* C28: a bid for which a floor is resolved, in a currency that is not the
\* floor's, its original currency not being the floor's either, and the
\* conversion throwing, is forwarded as it came: once, not rejected, with its
\* cpm and status, and without floorData.
C28_ForwardedUnenforced ==
  (/\ FloorResolved(result)
   /\ ~SameCurrency(result)
   /\ ~OriginalMatches(result)
   /\ ~result.canConvert) =>
     /\ result.calls = 1
     /\ ~result.forwarded.rejected
     /\ result.forwarded.cpm = result.bid.cpm
     /\ result.forwarded.status = result.bid.status
     /\ ~result.forwarded.floorData.present

\* a bid of 0.015 EUR under a floor of 0.02 USD, enforcement being on, has
\* been forwarded as it came because the conversion threw
C28_Witness ==
  /\ FloorResolved(result)
  /\ result.before.enforcement.enforceJS = "true"
  /\ result.bid.currency = <<"EUR">>
  /\ result.bid.originalCurrency = Undefined
  /\ ~result.canConvert
  /\ ResolutionOf(result).matchingFloor = Some(2000)
  /\ result.calls = 1
  /\ ~result.forwarded.rejected
  /\ result.forwarded.cpm = 1500
\* C29: setConfig with an endpoint whose method is not GET sends no request
\* and leaves the fetching flag as it was, false when nothing else was being
\* fetched; with that config in use and nothing being fetched an auction is
\* continued at once and not queued, and a setConfig with a GET endpoint
\* sends its request.
C29_NotGet ==
  [][/\ handleSetFloorsConfig(postDelayConfig) =>
          /\ requests' = requests
          /\ fetching' = fetching
          /\ _floorsConfig'.auctionDelay > 0
     /\ \A a \in Auctions, units \in AdUnitInputs, random \in Randoms :
          (/\ requestBidsHook(a, units, random)
           /\ _floorsConfig.endpoint.method = "POST"
           /\ ~fetching) =>
             /\ nextCalls'[a] = 1
             /\ timers'[a] = "none"
             /\ _delayedAuctions' = _delayedAuctions
     /\ (/\ handleSetFloorsConfig(delayConfig)
         /\ _floorsConfig.endpoint.method = "POST"
         /\ ~fetching) =>
             /\ requests' = requests + 1
             /\ fetching']_vars

\* under a config with an auction delay and a POST endpoint, no request
\* having been sent, an auction has been continued without waiting
C29_Witness ==
  /\ _floorsConfig.endpoint = [url |-> TRUE, method |-> "POST"]
  /\ _floorsConfig.auctionDelay > 0
  /\ ~fetching
  /\ requests = 0
  /\ nextCalls["a1"] = 1
  /\ timers["a1"] = "none"
  /\ _delayedAuctions = <<>>
\* C30: requestBidsHook puts the auction on the delayed queue, its timer
\* pending and its next function not called, when auctionDelay > 0 and a
\* fetch is occurring at the call; in every other case it calls the next
\* function within the call, and neither queues the auction nor sets a timer.
C30_QueuedIffDelayAndFetch ==
  [][\A a \in Auctions, units \in AdUnitInputs, random \in Randoms :
       requestBidsHook(a, units, random) =>
          IF _floorsConfig.auctionDelay > 0 /\ fetching
          THEN /\ _delayedAuctions' = Append(_delayedAuctions, a)
               /\ timers'[a] = "pending"
               /\ hookConfig'[a].timer # "null"
               /\ nextCalls'[a] = 0
               /\ ~hookConfig'[a].hasExited
          ELSE /\ _delayedAuctions' = _delayedAuctions
               /\ timers'[a] = "none"
               /\ hookConfig'[a].timer = "null"
               /\ nextCalls'[a] = 1
               /\ hookConfig'[a].hasExited]_vars

\* during one fetch, the first auction, begun under an auction delay, waits,
\* and the second, begun after the delay was set to 0, has been continued
C30_Witness ==
  /\ fetching
  /\ _floorsConfig.auctionDelay = 0
  /\ timers["a1"] = "pending"
  /\ _delayedAuctions = <<"a1">>
  /\ nextCalls["a1"] = 0
  /\ hookConfig["a2"].timer = "null"
  /\ nextCalls["a2"] = 1
\* what the bids of the auction's ad units tell of its outcome
BidFlags(units) ==
  [ij \in {<<i, j>> : i \in 1..Len(units), j \in 1..2} |->
     [getFloor |-> BidAt(units, ij).getFloor,
      present |-> BidAt(units, ij).floorData.present,
      skipped |-> BidAt(units, ij).floorData.skipped]]

\* the bids of the ad units tell the outcome the context tells
OutcomeOnBids(context, units) ==
  \A i \in 1..Len(units), j \in 1..2 :
    /\ BidAt(units, <<i, j>>).floorData.present = context.exists
    /\ BidAt(units, <<i, j>>).floorData.skipped = (context.exists /\ context.skipped)
    /\ BidAt(units, <<i, j>>).getFloor = (context.exists /\ ~context.skipped)

\* C31: when an auction continues it gets one outcome, told alike by its
\* context and by its bids: no context and untouched bids, a skipped context
\* whose bids have floorData.skipped and no getFloor, or a context whose bids
\* have getFloor.  After that no context is made for it, and while its context
\* exists the skipped flag and the bids stay as they are.
C31_OneOutcome ==
  [][\A a \in Auctions :
       /\ Continues(a) => OutcomeOnBids(_floorDataForAuction'[a], adUnits'[a])
       /\ hookConfig[a].hasExited =>
            /\ _floorDataForAuction'[a].exists => _floorDataForAuction[a].exists
            /\ _floorDataForAuction'[a].exists =>
                  /\ _floorDataForAuction'[a].skipped = _floorDataForAuction[a].skipped
                  /\ BidFlags(adUnits'[a]) = BidFlags(adUnits[a])]_vars

\* a skipped auction, its context still there after a getFloor call and a
\* bid response
C31_Witness ==
  /\ result.op = "addBidResponse"
  /\ getFloorCalls > 0
  /\ hookConfig["a1"].hasExited
  /\ _floorDataForAuction["a1"].exists
  /\ _floorDataForAuction["a1"].skipped
  /\ OutcomeOnBids(_floorDataForAuction["a1"], adUnits["a1"])
\* a flag that is true unless given as false, and one that is false unless
\* given as true
DefaultTrue(flag) == IF flag = "false" THEN "false" ELSE "true"
DefaultFalse(flag) == IF flag = "true" THEN "true" ELSE "false"

Contributing(units) == {i \in 1..Len(units) : isFloorsDataValid(units[i].floors)}

\* the last ad unit in adUnits order that has a rule under the key
LastWith(units, key) ==
  CHOOSE i \in Contributing(units) :
    /\ key \in KeysOfAdUnit(units[i])
    /\ \A j \in Contributing(units) : key \in KeysOfAdUnit(units[j]) => j <= i

\* C33: the table merged from the floors of the ad units of an auction has
\* exactly the keys the ad units contribute, each scoped as its ad unit's
\* table is, and under each key the floor of the last ad unit, in adUnits
\* order, that contributes the key.
C33_UnionLaterWins ==
  \A a \in Auctions :
    (_floorDataForAuction[a].exists /\ _floorDataForAuction[a].data.location = <<"adUnit">>) =>
       LET values == _floorDataForAuction[a].data.values
           units == adUnits[a]
       IN /\ {values[i].key : i \in 1..Len(values)}
               = UNION {KeysOfAdUnit(units[i]) : i \in Contributing(units)}
          /\ \A i \in 1..Len(values) :
               values[i].floor.n
                 = Lookup(getFloorsDataForAuction(units[LastWith(units, values[i].key)].floors,
                                                  units[LastWith(units, values[i].key)].code).values,
                          values[i].key)[1]

\* two ad units have contributed a rule under the same key, and the table
\* has the floor of the second
C33_Witness ==
  /\ _floorDataForAuction["a1"].exists
  /\ _floorDataForAuction["a1"].data.location = <<"adUnit">>
  /\ Len(adUnits["a1"]) = 2
  /\ Contributing(adUnits["a1"]) = {1, 2}
  /\ KeysOfAdUnit(adUnits["a1"][1]) \cap KeysOfAdUnit(adUnits["a1"][2]) # {}
  /\ _floorDataForAuction["a1"].data.values[1].floor.n = 2000
\* C34: while no fetch is occurring no auction is on the delayed queue, and
\* an auction on the queue has its timer pending and has not been continued.
C34_QueueWhileFetching ==
  /\ ~fetching => _delayedAuctions = <<>>
  /\ \A i \in 1..Len(_delayedAuctions) :
       /\ timers[_delayedAuctions[i]] = "pending"
       /\ nextCalls[_delayedAuctions[i]] = 0
       /\ ~hookConfig[_delayedAuctions[i]].hasExited

\* the fetch is over, the queue is empty, and the two auctions that waited
\* on it have been continued, one by its timer and one by the fetch callback
C34_Witness ==
  /\ ~fetching
  /\ _delayedAuctions = <<>>
  /\ timers["a1"] = "fired"
  /\ timers["a2"] = "cleared"
  /\ nextCalls["a1"] = 1
  /\ nextCalls["a2"] = 1
\* C35: a bid that answers the bid request whose getFloor call came just
\* before, in the currency of that call and with a cpm not below the floor
\* the call returned, is not rejected.
C35_FloorHonoured ==
  [][\A bid \in HonourBidInputs :
       (/\ result.op = "getFloor"
        /\ ~result.floor.isEmpty
        /\ bidResponse("a1", bid, TRUE)
        /\ bid.requestId = result.bidId
        /\ result.floor.currency = <<"USD">>
        /\ bid.cpm >= result.floor.floor) => ~result'.forwarded.rejected]_vars
\* the floor the table has for a resolution: that under its rule, or the
\* default when no rule matched
TableValue(data, info) ==
  IF info.matchingRule = Undefined THEN data.default ELSE Lookup(data.values, info.matchingRule)

\* C36: whatever getFloor calls came before, every memoized resolution of an
\* auction's context holds the floor its table has for the rule (or the
\* default), and the floor addBidResponseHook records on a bid is the floor
\* the table has for the rule it records.
C36_TableFloorEnforced ==
  /\ \A a \in Auctions :
       _floorDataForAuction[a].exists =>
          \A i \in 1..Len(_floorDataForAuction[a].data.matchingInputs) :
             _floorDataForAuction[a].data.matchingInputs[i].info.matchingFloor
               = TableValue(_floorDataForAuction[a].data,
                            _floorDataForAuction[a].data.matchingInputs[i].info)
  /\ (result.op = "addBidResponse" /\ result.forwarded.floorData.present) =>
       result.forwarded.floorData.floorValue
         = TableValue(result.before.data,
                      [matchingRule |-> result.forwarded.floorData.floorRule])

\* getFirstMatchingFloor over one table for several bid requests: a table on
\* the fields gptSlot and adUnitCode is drawn, and the function is called for
\* bid requests whose slot and code hold '-'
MemoSlots == { <<"x">>, <<"x", "-", "y">> }
MemoCodes == { <<"y", "-", "z">>, <<"z">>, <<"div1">> }
MemoRules ==
  << Rule(<<"x", "|", "y", "-", "z">>, Num(1000)),
     Rule(<<"x", "-", "y", "|", "z">>, Num(2000)),
     Rule(<<"*", "|", "*">>, Num(500)) >>

MemoTable(picked) ==
  Doc(<<"memo model">>, <<"USD">>, None, <<"gptSlot", "adUnitCode">>, <<"|">>,
      SelectSeq(MemoRules, LAMBDA r : r \in picked), None)

MemoRequest(slot, code) ==
  [bidId |-> <<1, 1>>, bidder |-> "rubicon", adUnitCode |-> code, gptSlot |-> slot,
   mediaTypes |-> <<[mediaType |-> <<"banner">>, sizes |-> <<<<"300x200">>>>]>>]

MemoInit ==
  /\ fetching = FALSE
  /\ addedFloorsHook = FALSE
  /\ _floorsConfig = EmptyConfig
  /\ _delayedAuctions = <<>>
  /\ _floorDataForAuction = [a \in Auctions |-> NoContext]
  /\ hookConfig = [a \in Auctions |-> NoHookConfig]
  /\ timers = [a \in Auctions |-> "none"]
  /\ adUnits = [a \in Auctions |-> <<>>]
  /\ nextCalls = [a \in Auctions |-> 0]
  /\ requests = 0
  /\ registered = [requestBids |-> 0, addBidResponse |-> 0, auctionEnd |-> 0]
  /\ ended = [a \in Auctions |-> FALSE]
  /\ getFloorCalls = 0
  /\ \E picked \in SUBSET {MemoRules[i] : i \in 1..Len(MemoRules)} :
        /\ picked # {}
        /\ result = [op |-> "input", calls |-> 0, table |-> MemoTable(picked),
                     data |-> MemoTable(picked),
                     bidObject |-> MemoRequest(<<"x">>, <<"div1">>),
                     mediaType |-> <<"banner">>, size |-> <<"300x250">>,
                     threw |-> FALSE, hit |-> FALSE, info |-> NoInfo]

\* getFirstMatchingFloor(floorData, bidObject, 'banner', size) for a bid
\* request of the auction, on the table as the calls before left it
callGetFirstMatchingFloorFor(bidObject) ==
  /\ result.calls < MaxMatchCalls
  /\ \E got \in {getFirstMatchingFloor(result.data, bidObject,
                                        result.mediaType, result.size)} :
        result' = [result EXCEPT !.op = "match", !.calls = @ + 1, !.data = got.data,
                                 !.bidObject = bidObject,
                                 !.threw = got.threw, !.hit = got.hit, !.info = got.info]
  /\ UNCHANGED <<fetching, addedFloorsHook, _floorsConfig, _delayedAuctions,
                 _floorDataForAuction, hookConfig, timers, adUnits, nextCalls,
                 requests, registered, ended, getFloorCalls>>

MemoNext ==
  \E slot \in MemoSlots, code \in MemoCodes :
     callGetFirstMatchingFloorFor(MemoRequest(slot, code))

MemoSpec == MemoInit /\ [][MemoNext]_vars

\* the resolution of a bid request on the table with nothing memoized
FreshResolution(table, bidObject, mediaType, size) ==
  getFirstMatchingFloor([table EXCEPT !.matchingInputs = <<>>],
                        bidObject, mediaType, size).info

\* C37: a resolution getFirstMatchingFloor takes from floorData.matchingInputs
\* is the one computed for the field values of the call, so it is the
\* resolution the table gives that bid request with nothing memoized, also
\* when the field values hold '-'.
C37_OwnResolution ==
  (result.op = "match" /\ result.hit) =>
     result.info = FreshResolution(result.table, result.bidObject,
                                   result.mediaType, result.size)

\* the bids of the ad units have neither getFloor nor floorData
BidsUntouched(units) ==
  \A i \in 1..Len(units), j \in 1..2 :
    /\ ~BidAt(units, <<i, j>>).getFloor
    /\ ~BidAt(units, <<i, j>>).floorData.present

\* C38: once setConfig has turned the module off, every auction waiting then
\* is continued in the end and no auction is continued twice, and an auction
\* that continues while the module is off gets no stored context and no
\* getFloor or floorData on its bids.
C38_OffAuctionsInert ==
  /\ \A a \in Auctions :
        (~addedFloorsHook /\ timers[a] = "pending") ~> (nextCalls[a] = 1)
  /\ [](\A a \in Auctions : nextCalls[a] <= 1)
  /\ [][\A a \in Auctions :
          (~addedFloorsHook /\ Continues(a)) =>
             /\ ~_floorDataForAuction'[a].exists
             /\ BidsUntouched(adUnits'[a])]_vars

\* C39: the requestBids hook and the addBidResponse hook are never registered
\* more than once at a time; a setConfig leaves each registered once when its
\* enabled is not false, also when they were registered before it, and not
\* registered when it is false; nothing but setConfig registers or removes them.
C39_HooksOnce ==
  /\ [](registered.requestBids <= 1 /\ registered.addBidResponse <= 1)
  /\ [][/\ \A config \in ConfigInputs :
             handleSetFloorsConfig(config) =>
                /\ registered'.requestBids = (IF config.enabled # "false" THEN 1 ELSE 0)
                /\ registered'.addBidResponse = (IF config.enabled # "false" THEN 1 ELSE 0)
        /\ (\A config \in ConfigInputs : ~handleSetFloorsConfig(config)) =>
             /\ registered'.requestBids = registered.requestBids
             /\ registered'.addBidResponse = registered.addBidResponse]_vars

\* the module turned on by one setConfig and left on by a second one: the
\* fetch of delayConfig is outstanding under the endpoint of postConfig
C39_Witness ==
  /\ fetching
  /\ _floorsConfig.endpoint = postConfig.endpoint
  /\ addedFloorsHook
  /\ registered = [requestBids |-> 1, addBidResponse |-> 1, auctionEnd |-> 1]

\* setConfig({floors: {enforcement: {...}}}): the module turned on with no data
noDataConfig == [basicFloorConfig EXCEPT !.data = NoData]

\* the module turned on with a fetch, turned off, and turned on with no data
StaleConfigInputs == { delayConfig, offConfig, noDataConfig }

StaleSetConfig == \E config \in StaleConfigInputs : handleSetFloorsConfig(config)

StaleNext ==
  \/ StaleSetConfig
  \/ RequestBids
  \/ TimerFires
  \/ FetchResponse
  \/ FetchError

StaleSpec == Init /\ [][StaleNext]_vars

\* C40: a fetch response that arrives while the module is off leaves
\* _floorsConfig without a rule table; a setConfig that turns the module on
\* from off with no data leaves it without one too; and an auction that
\* continues with no global rule table gets a context from its ad units' floors
\* or none.
C40_NoStaleTable ==
  [][/\ (~addedFloorsHook /\ FetchResponse) => _floorsConfig'.data.type # "object"
     /\ (~addedFloorsHook /\ handleSetFloorsConfig(noDataConfig)) =>
           _floorsConfig'.data.type # "object"
     /\ \A a \in Auctions :
           (Continues(a) /\ _floorsConfig'.data.type # "object"
              /\ _floorDataForAuction'[a].exists) =>
                 _floorDataForAuction'[a].data.location = <<"adUnit">>]_vars
=============
